---- MODULE Spec2Model ----
(***************************************************************************)
(* A model of ImpatialTextClassifier (impatial_text_cls.py): the estimator *)
(* instance with its hyperparameters and fitted attributes, and the        *)
(* operations fit, predict_proba, predict, score, copy, dump_all/load_all. *)
(*                                                                         *)
(* Conventions of the model                                                *)
(*  - a Python scalar is a record [t |-> type name, v |-> integer]; a      *)
(*    float carries its value in thousandths (1.0 is v = 1000);            *)
(*  - a Python list / tuple / ndarray is a record [t, ndim, items];        *)
(*  - a numpy array is a record [shape, data], data holding one entry per  *)
(*    row; a tokenized row is abstracted to the id of its text;            *)
(*  - a raised exception is a record [exc |-> class name, ...].            *)
(***************************************************************************)
EXTENDS Integers, Sequences, FiniteSets, TLC

(***************************************************************************)
(* Bounds of the model.                                                    *)
(***************************************************************************)
\* longest X / y of the exhaustive input sets (the few longer data sets are
\* listed one by one)
MaxLen == 3
\* largest class label drawn for y
MaxLabel == 2
\* number of distinct texts
NTexts == 2
\* number of distinct weight settings a training step can produce
NWeights == 3

(***************************************************************************)
(* Program constants.                                                      *)
(***************************************************************************)
MAX_SEQ_LENGTH == 512
\* floats are carried in thousandths: the calibration grid step is 1e-3
FloatUnit == 1000

(***************************************************************************)
(* Python values.                                                          *)
(***************************************************************************)
IntV(n) == [t |-> "int", v |-> n]
FloatV(n) == [t |-> "float", v |-> n]
StrV(n) == [t |-> "str", v |-> n]
BoolV(n) == [t |-> "bool", v |-> n]
NoneV == [t |-> "NoneType", v |-> 0]
Missing == [t |-> "missing", v |-> 0]

ListV(s) == [t |-> "list", ndim |-> 1, items |-> s]
TupleV(s) == [t |-> "tuple", ndim |-> 1, items |-> s]
NdArrayV(d, s) == [t |-> "ndarray", ndim |-> d, items |-> s]
\* an object with neither __len__ nor __getitem__
ScalarObj == [t |-> "int", ndim |-> 0, items |-> << >>]

\* isinstance(x, int): bool is a subclass of int
IsPyInt(x) == x.t \in {"int", "bool"}
IsPyFloat(x) == x.t \in {"float", "np.float32", "np.float64"}
IsListLike(c) == c.t \in {"list", "tuple", "ndarray"}

SeqMax(s) == IF s = << >> THEN 0 ELSE CHOOSE m \in {s[i] : i \in DOMAIN s} : \A i \in DOMAIN s : s[i] <= m
\* a variant of SeqMin that takes the last entry
SeqLast(s) == IF s = << >> THEN 0 ELSE s[Len(s)]
SeqMin(s) == IF s = << >> THEN 0 ELSE CHOOSE m \in {s[i] : i \in DOMAIN s} : \A i \in DOMAIN s : m <= s[i]

\* sorted(list(S)) for a finite set of integers
RECURSIVE SortedList(_)
SortedList(S) ==
    IF S = {} THEN << >>
    ELSE LET m == CHOOSE x \in S : \A z \in S : x <= z
         IN <<m>> \o SortedList(S \ {m})

\* list(range(n))
RangeList(n) == [i \in 1..n |-> i - 1]

\* an exception: its class, the argument the message names, the reason, and
\* the lists a message quotes (expected / actual classes)
NoError == [exc |-> "none", msg |-> "", why |-> "", expected |-> << >>, actual |-> << >>]
Raise(e, m, w) == [exc |-> e, msg |-> m, why |-> w, expected |-> << >>, actual |-> << >>]
RaiseLists(e, m, w, ex, ac) == [exc |-> e, msg |-> m, why |-> w, expected |-> ex, actual |-> ac]

(***************************************************************************)
(* check_params: the validation pass over the ten hyperparameters.  The    *)
(* checks run in the order of the code; the first failing one raises.      *)
(***************************************************************************)
HyperNames ==
    {"batch_size", "bert_hub_module_handle", "max_epochs", "num_monte_carlo", "patience",
     "random_seed", "gpu_memory_frac", "validation_fraction", "verbose", "hidden_layer_sizes"}

IsLayerSizeType(x) ==
    x.t \in {"int", "bool", "np.int32", "np.int64", "np.int16", "np.int8",
             "np.uint32", "np.uint64", "np.uint16", "np.uint8"}

\* the index of the first item of hidden_layer_sizes that is rejected, 0 if none
FirstBadLayer(items) ==
    LET bad == {i \in DOMAIN items : ~IsLayerSizeType(items[i]) \/ items[i].v <= 0}
    IN IF bad = {} THEN 0 ELSE CHOOSE i \in bad : \A j \in bad : i <= j

\* bool(x < 1) of a number or of an array of at most one number
BelowOne(x) ==
    IF x.t = "ndarray" THEN x.items # << >> /\ x.items[1].v < 1 ELSE x.v < 1

check_params(kw) ==
    LET ve(name, why) == Raise("ValueError", name, why)
    IN
    IF kw.batch_size.t = "missing" THEN ve("batch_size", "missing")
    ELSE IF ~IsPyInt(kw.batch_size) /\ kw.batch_size.t \notin {"np.int32", "np.uint32"}
        THEN ve("batch_size", "type")
    ELSE IF kw.batch_size.v < 1 THEN ve("batch_size", "not positive")
    ELSE IF kw.bert_hub_module_handle.t = "missing" THEN ve("bert_hub_module_handle", "missing")
    ELSE IF kw.bert_hub_module_handle.t # "NoneType" /\ kw.bert_hub_module_handle.t # "str"
        THEN ve("bert_hub_module_handle", "type")
    ELSE IF kw.bert_hub_module_handle.t = "str" /\ kw.bert_hub_module_handle.v < 1
        THEN ve("bert_hub_module_handle", "empty")
    ELSE IF kw.max_epochs.t = "missing" THEN ve("max_epochs", "missing")
    ELSE IF ~IsPyInt(kw.max_epochs) /\ kw.max_epochs.t \notin {"np.int32", "np.uint32"}
        THEN ve("max_epochs", "type")
    ELSE IF kw.max_epochs.v < 1 THEN ve("max_epochs", "not positive")
    ELSE IF kw.num_monte_carlo.t = "missing" THEN ve("num_monte_carlo", "missing")
    \* line 773 tests the type of max_epochs against np.int32, not of num_monte_carlo
    ELSE IF ~IsPyInt(kw.num_monte_carlo) /\ kw.max_epochs.t # "np.int32"
            /\ kw.num_monte_carlo.t # "np.uint32"
        THEN ve("num_monte_carlo", "type")
    \* a value that passed only because of line 773 need not be a number
    ELSE IF kw.num_monte_carlo.t \in {"NoneType", "str", "list", "tuple"}
        THEN Raise("TypeError", "num_monte_carlo", "'<' not supported")
    ELSE IF kw.num_monte_carlo.t = "ndarray" /\ Len(kw.num_monte_carlo.items) > 1
        THEN Raise("ValueError", "num_monte_carlo", "truth value of an array is ambiguous")
    ELSE IF BelowOne(kw.num_monte_carlo) THEN ve("num_monte_carlo", "not positive")
    ELSE IF kw.patience.t = "missing" THEN ve("patience", "missing")
    ELSE IF ~IsPyInt(kw.patience) /\ kw.patience.t \notin {"np.int32", "np.uint32"}
        THEN ve("patience", "type")
    ELSE IF kw.patience.v < 1 THEN ve("patience", "not positive")
    ELSE IF kw.random_seed.t = "missing" THEN ve("random_seed", "missing")
    ELSE IF kw.random_seed.t # "NoneType" /\ ~IsPyInt(kw.random_seed)
            /\ kw.random_seed.t \notin {"np.int32", "np.uint32"}
        THEN ve("random_seed", "type")
    ELSE IF kw.gpu_memory_frac.t = "missing" THEN ve("gpu_memory_frac", "missing")
    ELSE IF ~IsPyFloat(kw.gpu_memory_frac) THEN ve("gpu_memory_frac", "type")
    ELSE IF kw.gpu_memory_frac.v <= 0 \/ kw.gpu_memory_frac.v > FloatUnit
        THEN ve("gpu_memory_frac", "range")
    ELSE IF kw.validation_fraction.t = "missing" THEN ve("validation_fraction", "missing")
    ELSE IF ~IsPyFloat(kw.validation_fraction) THEN ve("validation_fraction", "type")
    ELSE IF kw.validation_fraction.v < 0 THEN ve("validation_fraction", "negative")
    ELSE IF kw.validation_fraction.v >= FloatUnit THEN ve("validation_fraction", "not less than 1")
    ELSE IF kw.verbose.t = "missing" THEN ve("verbose", "missing")
    ELSE IF ~IsPyInt(kw.verbose) /\ kw.verbose.t \notin {"np.int32", "np.uint32"}
        THEN ve("verbose", "type")
    ELSE IF kw.hidden_layer_sizes.t = "missing" THEN ve("hidden_layer_sizes", "missing")
    ELSE IF ~IsListLike(kw.hidden_layer_sizes) THEN ve("hidden_layer_sizes", "type")
    ELSE IF kw.hidden_layer_sizes.t = "ndarray" /\ kw.hidden_layer_sizes.ndim # 1
        THEN ve("hidden_layer_sizes", "not 1d")
    ELSE IF Len(kw.hidden_layer_sizes.items) < 1 THEN ve("hidden_layer_sizes", "empty")
    ELSE IF FirstBadLayer(kw.hidden_layer_sizes.items) # 0 THEN ve("hidden_layer_sizes", "item")
    ELSE NoError

(***************************************************************************)
(* check_X and check_Xy.                                                   *)
(***************************************************************************)
\* the index of the first item of X that is not string-like, 0 if none
FirstNonString(items) ==
    LET bad == {i \in DOMAIN items : items[i].t # "str"}
    IN IF bad = {} THEN 0 ELSE CHOOSE i \in bad : \A j \in bad : i <= j

check_X(X, X_name) ==
    IF ~IsListLike(X) THEN Raise("ValueError", X_name, "not list-like")
    ELSE IF X.t = "ndarray" /\ X.ndim # 1 THEN Raise("ValueError", X_name, "not 1-D")
    ELSE IF FirstNonString(X.items) # 0 THEN Raise("ValueError", X_name, "item not string-like")
    ELSE NoError

\* int(y[idx]) for a label: truncation toward zero for a float
PyInt(lab) ==
    IF lab.t = "float"
    THEN IF lab.v >= 0 THEN lab.v \div FloatUnit ELSE -((-lab.v) \div FloatUnit)
    ELSE lab.v

\* class_idx is None after the try block of check_Xy
LabelInadmissible(lab) ==
    \/ lab.t = "str"
    \/ lab.t = "float" /\ PyInt(lab) * FloatUnit # lab.v

\* the index of the first label that check_Xy rejects (None first), 0 if none
FirstBadLabel(items) ==
    LET bad == {i \in DOMAIN items : items[i].t = "NoneType" \/ LabelInadmissible(items[i])}
    IN IF bad = {} THEN 0 ELSE CHOOSE i \in bad : \A j \in bad : i <= j

\* a variant of ClassesOf that also collects the negative labels
ClassesWithNegatives(items) == {PyInt(items[i]) : i \in DOMAIN items}

\* the set classes_list collected by the loop of check_Xy
ClassesOf(items) == {PyInt(items[i]) : i \in {j \in DOMAIN items : PyInt(items[j]) >= 0}}

\* [err |-> the exception raised or NoError, classes |-> the returned list]
check_Xy(X, X_name, y, y_name) ==
    LET ex == check_X(X, X_name)
        fail(e) == [err |-> e, classes |-> << >>]
    IN
    IF ex.exc # "none" THEN fail(ex)
    ELSE IF ~IsListLike(y) THEN fail(Raise("ValueError", y_name, "not list-like"))
    ELSE IF y.t = "ndarray" /\ y.ndim # 1 THEN fail(Raise("ValueError", y_name, "not 1-D"))
    ELSE IF Len(y.items) # Len(X.items) THEN fail(Raise("ValueError", y_name, "length"))
    ELSE IF FirstBadLabel(y.items) # 0
        THEN fail(Raise("ValueError", y_name,
                        IF y.items[FirstBadLabel(y.items)].t = "NoneType" THEN "None" ELSE "inadmissible"))
    ELSE IF Cardinality(ClassesOf(y.items)) < 2 THEN fail(Raise("ValueError", y_name, "too few classes"))
    ELSE [err |-> NoError, classes |-> SortedList(ClassesOf(y.items))]

(***************************************************************************)
(* numpy arrays: [shape, data].  A 2-D array of shape (n, MAX_SEQ_LENGTH)  *)
(* holds one entry per row; a 1-D array of shape (n,) one entry per item.  *)
(***************************************************************************)
Arr2(rows) == [shape |-> <<Len(rows), MAX_SEQ_LENGTH>>, data |-> rows]
Arr1(xs) == [shape |-> <<Len(xs)>>, data |-> xs]
\* the value None where an array or a list of arrays is expected
NoneData == << >>
NoneArr == [shape |-> << >>, data |-> << >>]

\* np.full(shape, fill_value): fill_value is broadcast to every row
Full(shape, fill_value) == [shape |-> shape, data |-> [i \in 1..shape[1] |-> fill_value]]

\* np.concatenate((a, b)) along axis 0 raises unless both arrays have the same
\* number of dimensions and agree on the other axes
ConcatOk(a, b) == Len(a.shape) = Len(b.shape) /\ Tail(a.shape) = Tail(b.shape)
Concatenate(a, b) == [shape |-> <<a.shape[1] + b.shape[1]>> \o Tail(a.shape), data |-> a.data \o b.data]

\* a[start:end] with 0 <= start: Python clamps end to the length
Slice(a, start, end) ==
    LET n == Len(a.data)
        e == IF end > n THEN n ELSE end
        rows == IF start >= e THEN << >> ELSE SubSeq(a.data, start + 1, e)
    IN [shape |-> <<Len(rows)>> \o Tail(a.shape), data |-> rows]

\* a[indices] for a sequence of 0-based indices
Take(a, indices) ==
    [shape |-> <<Len(indices)>> \o Tail(a.shape), data |-> [i \in DOMAIN indices |-> a.data[indices[i] + 1]]]

\* the increasing sequence of the members of a set of naturals
Ascending(S) == SortedList(S)

(***************************************************************************)
(* tokenize_all: the three channels (ids, mask, segment ids) of X, split   *)
(* into labeled and unlabeled rows when y is given.  The tokenizer is an   *)
(* external collaborator: the ids and the mask of a text are abstracted to *)
(* the id of the text, the segment ids are all zero.                       *)
(***************************************************************************)
TokenizeRows(items) ==
    <<Arr2([i \in DOMAIN items |-> items[i].v]),
      Arr2([i \in DOMAIN items |-> items[i].v]),
      Arr2([i \in DOMAIN items |-> 0])>>

\* tokenize_all(X) without y
tokenize_X(X) == TokenizeRows(X.items)

\* tokenize_all(X, y): [err, X, y, unlabeled]
\* A tokenize_all that returns the rows of all samples beside the labels of the labeled ones.
TokenizeUnsplit(X, y) ==
    LET n_samples == Len(X.items)
        labeled == Ascending({i - 1 : i \in {j \in 1..n_samples : y.items[j].v >= 0}})
    IN
    IF Len(labeled) = 0
    THEN [err |-> Raise("ValueError", "tokenize_all", "no labeled samples"),
          X |-> NoneData, y |-> NoneArr, unlabeled |-> NoneData]
    ELSE [err |-> NoError, X |-> TokenizeRows(X.items),
          y |-> Arr1([i \in DOMAIN labeled |-> PyInt(y.items[labeled[i] + 1])]),
          unlabeled |-> NoneData]

tokenize_all(X, y) ==
    LET X_tokenized == TokenizeRows(X.items)
        n_samples == Len(X.items)
        labeled == Ascending({i - 1 : i \in {j \in 1..n_samples : y.items[j].v >= 0}})
        unlabeled == Ascending({i - 1 : i \in {j \in 1..n_samples : y.items[j].v < 0}})
    IN
    IF Len(labeled) = 0
    THEN [err |-> Raise("ValueError", "tokenize_all", "no labeled samples"),
          X |-> NoneData, y |-> NoneArr, unlabeled |-> NoneData]
    ELSE [err |-> NoError,
          X |-> IF Len(unlabeled) = 0 THEN X_tokenized
                ELSE [c \in 1..3 |-> Take(X_tokenized[c], labeled)],
          y |-> Arr1([i \in DOMAIN labeled |-> PyInt(y.items[labeled[i] + 1])]),
          unlabeled |-> IF Len(unlabeled) = 0 THEN NoneData
                        ELSE [c \in 1..3 |-> Take(X_tokenized[c], unlabeled)]]

(***************************************************************************)
(* extend_Xy: pad X (and y) to a multiple of batch_size with copies of the *)
(* last row.  perm is the permutation np.random.shuffle leaves in indices. *)
(* Returns [err, X, y]; y is NoneArr when no labels were given.            *)
(***************************************************************************)
\* An extend_Xy that returns the rows and labels as they are.
NoPadding(batch_size, X, y, shuffle, perm) ==
    IF batch_size = 0
    THEN [err |-> Raise("ZeroDivisionError", "extend_Xy", "n_samples % batch_size"), X |-> NoneData, y |-> NoneArr]
    ELSE [err |-> NoError, X |-> X, y |-> y]

extend_Xy(batch_size, X, y, shuffle, perm) ==
    LET n_samples == X[1].shape[1]
        n_extend0 == n_samples % batch_size
        n_extend == batch_size - n_extend0
        X_ext == [c \in DOMAIN X |->
                    Concatenate(X[c], Full(<<n_extend, MAX_SEQ_LENGTH>>, X[c].data[n_samples]))]
        y_fill == Full(<<n_extend, MAX_SEQ_LENGTH>>, y.data[Len(y.data)])
        indices == [i \in 1..(n_samples + n_extend) |-> i - 1]
    IN
    IF batch_size = 0
    THEN [err |-> Raise("ZeroDivisionError", "extend_Xy", "n_samples % batch_size"), X |-> NoneData, y |-> NoneArr]
    ELSE IF n_extend0 = 0 THEN [err |-> NoError, X |-> X, y |-> y]
    ELSE IF y = NoneArr
    THEN [err |-> NoError,
          X |-> IF shuffle THEN [c \in DOMAIN X |-> Take(X_ext[c], perm)] ELSE X_ext,
          y |-> NoneArr]
    ELSE IF ~ConcatOk(y, y_fill)
    THEN [err |-> Raise("ValueError", "extend_Xy", "concatenate: arrays of different dimensions"),
          X |-> NoneData, y |-> NoneArr]
    ELSE [err |-> NoError,
          X |-> IF shuffle THEN [c \in DOMAIN X |-> Take(X_ext[c], indices)] ELSE X_ext,
          y |-> IF shuffle THEN Take(Concatenate(y, y_fill), indices) ELSE Concatenate(y, y_fill)]

(***************************************************************************)
(* fill_feed_dict: the two assertions and the feed dictionary.             *)
(***************************************************************************)
fill_feed_dict_ok(batch_size, X) == Len(X) = 3 /\ Len(X[1].data) = batch_size

fill_feed_dict(X, y) == [input_ids |-> X[1], input_mask |-> X[2], segment_ids |-> X[3], y_ph |-> y]

\* the batch bounds (batch_start, batch_end) of predict_proba
BoundsFloor(n_rows, batch_size) ==
    [iteration \in 1..(n_rows \div batch_size) |->
        <<(iteration - 1) * batch_size, (iteration - 1) * batch_size + batch_size>>]

\* int(np.ceil(n / float(batch_size)))
CeilDiv(n, b) == (n + b - 1) \div b

\* the batch bounds of fit: the last one is cut at the number of rows
BoundsCeil(n_rows, batch_size) ==
    [iteration \in 1..CeilDiv(n_rows, batch_size) |->
        <<(iteration - 1) * batch_size,
          IF (iteration - 1) * batch_size + batch_size < n_rows
          THEN (iteration - 1) * batch_size + batch_size ELSE n_rows>>]

(***************************************************************************)
(* The hyperparameters: __init__ stores its ten arguments unchanged.       *)
(***************************************************************************)
\* the default arguments of __init__
DefaultParams ==
    [batch_size |-> IntV(32), hidden_layer_sizes |-> TupleV(<<IntV(100)>>),
     bert_hub_module_handle |-> StrV(55), max_epochs |-> IntV(10), num_monte_carlo |-> IntV(50),
     patience |-> IntV(3), random_seed |-> NoneV, gpu_memory_frac |-> FloatV(FloatUnit),
     validation_fraction |-> FloatV(100), verbose |-> BoolV(0)]

\* bool(x) of a hyperparameter
Truthy(x) == x.t # "NoneType" /\ x.v # 0

(***************************************************************************)
(* The estimator instance.  params holds the ten constructor arguments;    *)
(* attrs is the set of fitted attributes the instance currently has        *)
(* (hasattr); the remaining fields hold their values.  sess_ is the        *)
(* session: the graph it was built for (counted within one fit or load)    *)
(* and the trainable weights w it holds.                                   *)
(***************************************************************************)
TensorAttrs == {"input_ids_", "input_mask_", "segment_ids_", "y_ph_", "logits_", "labels_distribution_"}
FittedAttrs == {"n_classes_", "tokenizer_", "sess_", "certainty_threshold_"} \cup TensorAttrs

NoSession == [graph |-> 0, w |-> 0]

NewInstance(params) ==
    [params |-> params, attrs |-> {}, n_classes_ |-> 0, sess_ |-> NoSession, certainty_threshold_ |-> 0]

\* a variant of is_fitted that raises for no instance
is_fitted_always(self) == NoError

\* is_fitted: check_is_fitted over the ten fitted attributes
is_fitted(self) ==
    IF FittedAttrs \subseteq self.attrs THEN NoError
    ELSE Raise("NotFittedError", "is_fitted", "attribute missing")

\* finalize_model: delete the tensors, close and delete the session
finalize_model(self) ==
    [self EXCEPT !.attrs = @ \ (TensorAttrs \cup {"sess_"}), !.sess_ = NoSession]

\* build_model: a new session and new tensors on a new graph
build_model(self, graph, w) ==
    [self EXCEPT !.attrs = @ \cup TensorAttrs \cup {"sess_"}, !.sess_ = [graph |-> graph, w |-> w]]

(***************************************************************************)
(* The network behind labels_distribution_.probs: the class probabilities  *)
(* of one row under weights w, in thousandths.  The network is an external *)
(* collaborator; it is abstracted to a fixed softmax output per (w, text)  *)
(* whose entries lie strictly between 0 and 1 and sum to 1.                *)
(***************************************************************************)
FavClass(w, text, nc) == (w + text) % nc
\* the probability of a class that is not the favoured one; 0 is a saturated
\* softmax, which gives the favoured class 1.0 exactly
LowProb(w, text, nc) ==
    IF (w + text) % 3 = 0 THEN 0
    ELSE IF ((w + text) \div 2) % 2 = 0 THEN FloatUnit \div (nc + 2)
    ELSE FloatUnit \div (nc + 8)
Probs(w, text, nc) ==
    [c \in 1..nc |-> IF c - 1 = FavClass(w, text, nc)
                     THEN FloatUnit - (nc - 1) * LowProb(w, text, nc)
                     ELSE LowProb(w, text, nc)]

\* np.mean over num_monte_carlo passes of the network on one row
MeanProbs(w, text, nc, num_monte_carlo) ==
    [c \in 1..nc |-> (num_monte_carlo * Probs(w, text, nc)[c]) \div num_monte_carlo]

\* the value an int32 cell holds after a float is assigned to it, in thousandths
StoreInt32(x) == (x \div FloatUnit) * FloatUnit

\* row.argmax(): the 0-based index of the first maximum
ArgMax(row) == (CHOOSE c \in DOMAIN row : (\A d \in DOMAIN row : row[d] <= row[c])
                                         /\ (\A d \in 1..(c - 1) : row[d] < row[c])) - 1

(***************************************************************************)
(* predict_proba: [err, proba], proba the returned matrix as a sequence of *)
(* rows, every entry in thousandths.                                       *)
(***************************************************************************)
\* the rows written by the loop over the batches: row r (1-based) of the zero
\* matrix is overwritten when some batch covers it
ProbaMatrix(self, X_tokenized, bounds_of_batches) ==
    LET nc == self.n_classes_
        M == self.params.num_monte_carlo.v
        covered(r) == \E b \in DOMAIN bounds_of_batches :
                          bounds_of_batches[b][1] < r /\ r <= bounds_of_batches[b][2]
    IN [r \in 1..X_tokenized[1].shape[1] |->
          IF covered(r)
          THEN [c \in 1..nc |-> StoreInt32(MeanProbs(self.sess_.w, X_tokenized[1].data[r], nc, M)[c])]
          ELSE [c \in 1..nc |-> 0]]

\* a variant of DropPadding that returns the rows of the padded matrix
KeepPadding(probabilities, n_samples) == probabilities

\* line 361: probabilities[0:n_samples]
DropPadding(probabilities, n_samples) == SubSeq(probabilities, 1, n_samples)

predict_proba(self, X) ==
    LET fail(e) == [err |-> e, proba |-> << >>]
        B == self.params.batch_size.v
        X_tokenized == tokenize_X(X)
        n_samples == X_tokenized[1].shape[1]
        ext == extend_Xy(B, X_tokenized, NoneArr, FALSE, << >>)
        bounds_of_batches == BoundsFloor(ext.X[1].shape[1], B)
        badBatch == \E b \in DOMAIN bounds_of_batches :
                       ~fill_feed_dict_ok(B, [c \in 1..3 |->
                            Slice(ext.X[c], bounds_of_batches[b][1], bounds_of_batches[b][2])])
        probabilities == ProbaMatrix(self, ext.X, bounds_of_batches)
    IN
    IF check_params(self.params).exc # "none" THEN fail(check_params(self.params))
    ELSE IF check_X(X, "X").exc # "none" THEN fail(check_X(X, "X"))
    ELSE IF is_fitted(self).exc # "none" THEN fail(is_fitted(self))
    ELSE IF ext.err.exc # "none" THEN fail(ext.err)
    ELSE IF badBatch THEN fail(Raise("AssertionError", "fill_feed_dict", "len(X[0]) == batch_size"))
    ELSE [err |-> NoError, proba |-> DropPadding(probabilities, n_samples)]

\* np.log(x + 1e-9) of a cell of the result matrix, in thousandths: the
\* cell holds 0 or 1
LogCell(x) == IF x = 0 THEN -20723 ELSE 0

\* predict_log_proba (lines 363-364)
predict_log_proba(self, X) ==
    LET pp == predict_proba(self, X)
    IN IF pp.err.exc # "none" THEN pp
       ELSE [err |-> NoError,
             proba |-> [i \in DOMAIN pp.proba |-> [c \in DOMAIN pp.proba[i] |-> LogCell(pp.proba[i][c])]]]

(***************************************************************************)
(* predict: the arg-max class of every row, or -1 below the threshold.     *)
(***************************************************************************)
\* a variant of Recognized that never answers -1
RecognizedAlways(row, certainty_threshold_) == ArgMax(row)

\* lines 367-371: one element of recognized_classes
Recognized(row, certainty_threshold_) ==
    IF row[ArgMax(row) + 1] < certainty_threshold_ THEN -1 ELSE ArgMax(row)

predict(self, X) ==
    LET pp == predict_proba(self, X)
    IN IF pp.err.exc # "none" THEN [err |-> pp.err, proba |-> << >>, classes |-> << >>]
       ELSE [err |-> NoError, proba |-> pp.proba,
             classes |-> [i \in DOMAIN pp.proba |-> Recognized(pp.proba[i], self.certainty_threshold_)]]

(***************************************************************************)
(* sklearn's f1_score.  A score is the exact fraction <<num, den>> in      *)
(* lowest terms.                                                           *)
(***************************************************************************)
RECURSIVE GCD(_, _)
GCD(a, b) == IF b = 0 THEN a ELSE GCD(b, a % b)

Frac(n, d) == IF n = 0 THEN <<0, 1>> ELSE <<n \div GCD(n, d), d \div GCD(n, d)>>
FracAdd(p, q) == Frac(p[1] * q[2] + q[1] * p[2], p[2] * q[2])
FracLess(p, q) == p[1] * q[2] < q[1] * p[2]

\* the F1 of one label: 2tp / (2tp + fp + fn), 0 when the label is never
\* seen; the fraction is not reduced
F1OfLabel(y_true, y_pred, label) ==
    LET tp == Cardinality({i \in DOMAIN y_true : y_true[i] = label /\ y_pred[i] = label})
        fp == Cardinality({i \in DOMAIN y_true : y_true[i] # label /\ y_pred[i] = label})
        fn == Cardinality({i \in DOMAIN y_true : y_true[i] = label /\ y_pred[i] # label})
    IN IF 2 * tp + fp + fn = 0 THEN <<0, 1>> ELSE <<2 * tp, 2 * tp + fp + fn>>

RECURSIVE FracSum(_)
FracSum(fs) == IF fs = << >> THEN <<0, 1>> ELSE FracAdd(fs[1], FracSum(Tail(fs)))

\* a variant of F1Macro that averages over the samples, not over the labels
F1Micro(y_true, y_pred) ==
    Frac(Cardinality({i \in DOMAIN y_true : y_true[i] = y_pred[i]}), Len(y_true))

\* f1_score(y_true, y_pred, average='macro'): the mean over the labels present
F1Macro(y_true, y_pred) ==
    LET labels == SortedList({y_true[i] : i \in DOMAIN y_true} \cup {y_pred[i] : i \in DOMAIN y_pred})
        total == FracSum([k \in DOMAIN labels |-> F1OfLabel(y_true, y_pred, labels[k])])
    IN IF labels = << >> THEN <<0, 1>> ELSE Frac(total[1], total[2] * Len(labels))

\* f1_score(y_true, y_pred) for binary targets: the F1 of label 1
F1Binary(y_true, y_pred) == F1OfLabel(y_true, y_pred, 1)

(***************************************************************************)
(* The unknown-classes check shared by fit (validation data) and score.    *)
(***************************************************************************)
UnknownClasses(classes, n_classes_) ==
    SortedList({classes[i] : i \in DOMAIN classes} \ (0..(n_classes_ - 1)))

\* a variant of UnknownError that accepts every class
UnknownErrorNever(y_name, classes, n_classes_) == NoError

UnknownError(y_name, classes, n_classes_) ==
    IF UnknownClasses(classes, n_classes_) = << >> THEN NoError
    ELSE RaiseLists("ValueError", y_name,
                    IF Len(UnknownClasses(classes, n_classes_)) = 1 THEN "class is unknown" ELSE "classes are unknown",
                    << >>, UnknownClasses(classes, n_classes_))

(***************************************************************************)
(* score: [err, f1, classes].                                              *)
(***************************************************************************)
score(self, X, y) ==
    LET fail(e) == [err |-> e, f1 |-> <<0, 1>>, classes |-> << >>]
        cx == check_Xy(X, "X", y, "y")
        y_pred == predict(self, X)
    IN
    IF check_params(self.params).exc # "none" THEN fail(check_params(self.params))
    ELSE IF is_fitted(self).exc # "none" THEN fail(is_fitted(self))
    ELSE IF cx.err.exc # "none" THEN fail(cx.err)
    ELSE IF UnknownError("y", cx.classes, self.n_classes_).exc # "none"
        THEN fail(UnknownError("y", cx.classes, self.n_classes_))
    ELSE IF y_pred.err.exc # "none" THEN fail(y_pred.err)
    ELSE [err |-> NoError,
          f1 |-> F1Macro([i \in DOMAIN y.items |-> PyInt(y.items[i])], y_pred.classes),
          classes |-> y_pred.classes]

(***************************************************************************)
(* __copy__: a new instance with the same hyperparameters and, when self   *)
(* is fitted, the nine attributes the method assigns.                      *)
(***************************************************************************)
CopiedAttrs ==
    {"n_classes_", "logits_", "tokenizer_", "input_ids_", "input_mask_", "segment_ids_", "y_ph_",
     "sess_", "labels_distribution_"}

copy_(self) ==
    IF is_fitted(self).exc = "none"
    THEN [params |-> self.params, attrs |-> CopiedAttrs, n_classes_ |-> self.n_classes_,
          sess_ |-> self.sess_, certainty_threshold_ |-> 0]
    ELSE NewInstance(self.params)

(***************************************************************************)
(* Checkpoint files.  A checkpoint saved under a base name is a group of   *)
(* physical files base.index, base.meta and base.data; a file is the pair  *)
(* <<base name, suffix>>.  The disk maps every existing file to the        *)
(* weights stored in it.  Saver.save also writes the checkpoint state file *)
(* named "checkpoint" into the directory of the base name; the program     *)
(* never reads it.                                                         *)
(***************************************************************************)
CkptSuffixes == {"index", "meta", "data"}
CkptFiles(base) == {<<base, sfx>> : sfx \in CkptSuffixes}
StateFile == <<"checkpoint", "">>

\* find_all_model_files: the files whose name contains the base name
find_all_model_files(disk, base) == {f \in DOMAIN disk : f[1] = base}

\* save_model: write the group of files of the checkpoint
save_model(disk, base, w) ==
    [f \in DOMAIN disk \cup CkptFiles(base) \cup {StateFile} |->
        IF f \in CkptFiles(base) \cup {StateFile} THEN w ELSE disk[f]]

\* A restore that leaves the variables of the new session as they were built.
RestoreNothing(self, disk, base) == self

\* load_model: Saver.restore gives the variables of the live session the values of the checkpoint.
load_model(self, disk, base) == [self EXCEPT !.sess_.w = disk[<<base, "data">>]]

\* A range that is never exhausted.
RangeUnbounded(epoch, max_epochs) == TRUE

\* `for epoch in range(self.max_epochs)`: the loop body runs for epoch while epoch < max_epochs.
InRange(epoch, max_epochs) == epoch < max_epochs

\* os.remove of every file of a set
RemoveFiles(disk, fs) == [f \in DOMAIN disk \ fs |-> disk[f]]

\* open(name, 'wb').write(data) for every name of a set
WriteFiles(disk, names, data) ==
    [f \in DOMAIN disk \cup names |-> IF f \in names THEN data ELSE disk[f]]

\* a variant of FileExists that finds no file
FileExistsNever(names, disk) == FALSE

\* os.path.isfile holds for one of the names
FileExists(names, disk) == names \cap DOMAIN disk # {}

(***************************************************************************)
(* dump_all / load_all: the state blob of __getstate__ / __setstate__.     *)
(***************************************************************************)
\* the keys of the blob beyond the ten hyperparameters
NoBlob == [present |-> FALSE, params |-> DefaultParams, keys |-> {}, n_classes_ |-> 0, model_files |-> {}, w |-> 0]

dump_all(self) ==
    IF is_fitted(self).exc = "none"
    THEN [present |-> TRUE, params |-> self.params,
          keys |-> {"n_classes_", "tokenizer_", "model_name_"},
          n_classes_ |-> self.n_classes_,
          model_files |-> CkptSuffixes,
          w |-> self.sess_.w]
    ELSE [present |-> TRUE, params |-> self.params, keys |-> {}, n_classes_ |-> 0, model_files |-> {}, w |-> 0]

\* the disk after dump_all: the model is saved under a temporary name and
\* the files found under that name are read and removed (lines 664-676)
DumpFiles(self, disk) ==
    IF is_fitted(self).exc = "none"
    THEN RemoveFiles(save_model(disk, "dump", self.sess_.w),
                     find_all_model_files(save_model(disk, "dump", self.sess_.w), "dump"))
    ELSE disk

\* time.time() rounded, the seed fit and load_all store when random_seed is None
TimeSeed == IntV(0)

SeedOf(params) == IF params.random_seed.t = "NoneType" THEN [params EXCEPT !.random_seed = TimeSeed] ELSE params

\* load_all: [err, self, disk]
load_all(self, new_params, disk) ==
    LET cleared == finalize_model([self EXCEPT !.attrs = @ \ {"tokenizer_"}])
        is_fitted_ == {"n_classes_", "tokenizer_", "model_name_"} \subseteq new_params.keys
                      /\ new_params.model_files # {}
        tmp_file_names == {<<"dump", sfx>> : sfx \in new_params.model_files}
        restored == build_model([cleared EXCEPT !.params = SeedOf(new_params.params),
                                                !.attrs = @ \cup {"n_classes_", "tokenizer_"},
                                                !.n_classes_ = new_params.n_classes_],
                                1, new_params.w)
        \* lines 712-714, then the finally clause (lines 717-720)
        written == WriteFiles(disk, tmp_file_names, new_params.w)
    IN
    IF check_params(new_params.params).exc # "none"
    THEN [err |-> check_params(new_params.params), self |-> self, disk |-> disk]
    ELSE IF is_fitted_
    THEN IF FileExists(tmp_file_names, disk)
         THEN [err |-> Raise("ValueError", "load_all", "file exists"), self |-> cleared, disk |-> disk]
         ELSE [err |-> NoError, self |-> restored,
               disk |-> RemoveFiles(written, tmp_file_names \cap DOMAIN written)]
    ELSE [err |-> NoError, self |-> [cleared EXCEPT !.params = new_params.params], disk |-> disk]

(***************************************************************************)
(* fit, first part (lines 49-155): validation of the arguments, teardown   *)
(* of the previous model, the train / validation split, tokenization,      *)
(* padding and the first build_model.  test_index is the test part a       *)
(* StratifiedShuffleSplit draws, w0 the initial weights.                   *)
(***************************************************************************)
NoVal == [present |-> FALSE, X |-> ListV(<< >>), y |-> ListV(<< >>)]

\* the locals of a running fit
NoFit ==
    [X_train |-> NoneData, y_train |-> NoneArr, has_val |-> FALSE, X_val |-> NoneData, y_val |-> NoneArr,
     y_val_ |-> << >>, X_unlabeled |-> NoneData, bounds_train |-> << >>, bounds_val |-> << >>,
     epoch |-> 0, best_acc |-> -1, n_epochs_without_improving |-> 0, ops_graph |-> 0,
     saved |-> FALSE, steps |-> 0, exc |-> NoError]

\* [X[idx] for idx in index]
Pick(v, index) == ListV([i \in DOMAIN index |-> v.items[index[i] + 1]])

\* n_test of StratifiedShuffleSplit: ceil(test_size * n)
NTest(n, validation_fraction) == CeilDiv(validation_fraction * n, FloatUnit)

\* StratifiedShuffleSplit raises when a class has fewer than 2 members or a
\* part is smaller than the number of classes (negative labels are classes too)
SplitRaises(y, validation_fraction) ==
    LET n == Len(y.items)
        labels == {PyInt(y.items[i]) : i \in DOMAIN y.items}
        count(l) == Cardinality({i \in DOMAIN y.items : PyInt(y.items[i]) = l})
        n_test == NTest(n, validation_fraction)
    IN \/ \E l \in labels : count(l) < 2
       \/ n - n_test < Cardinality(labels)
       \/ n_test < Cardinality(labels)

\* np.vstack of two lists of channels
VStack(a, b) == [c \in DOMAIN a |-> Concatenate(a[c], b[c])]

\* a variant of LabelsOrdered that looks at the first class only
LabelsOrderedFirst(classes) == classes[1] = 0

\* line 50: the ascending classes start at 0 and end at len - 1
LabelsOrdered(classes) == ~(classes[1] # 0 \/ classes[Len(classes)] # Len(classes) - 1)

FitSetup(self, X, y, val, test_index, w0) ==
    LET cx == check_Xy(X, "X", y, "y")
        k == Len(cx.classes)
        B == self.params.batch_size.v
        vf == self.params.validation_fraction.v
        \* lines 54-61
        s1 == finalize_model([self EXCEPT !.n_classes_ = k,
                                          !.attrs = (@ \cup {"n_classes_"}) \ {"tokenizer_"},
                                          !.params = SeedOf(@)])
        useSplit == ~val.present /\ vf > 0
        has_val == useSplit \/ val.present
        n == Len(X.items)
        test_idx == Ascending(test_index)
        train_idx == Ascending((0..(n - 1)) \ test_index)
        X_train_ == IF useSplit THEN Pick(X, train_idx) ELSE X
        y_train_ == IF useSplit THEN Pick(y, train_idx) ELSE y
        X_val_ == IF useSplit THEN Pick(X, test_idx) ELSE val.X
        y_val_ == IF useSplit THEN Pick(y, test_idx) ELSE val.y
        cv == check_Xy(val.X, "X_val", val.y, "y_val")
        \* line 94
        s2 == [s1 EXCEPT !.attrs = @ \cup {"tokenizer_"}]
        tt == tokenize_all(X_train_, y_train_)
        et == extend_Xy(B, tt.X, tt.y, TRUE, << >>)
        tv == tokenize_all(X_val_, y_val_)
        ev == extend_Xy(B, tv.X, tv.y, FALSE, << >>)
        unl == IF ~has_val THEN tt.unlabeled
               ELSE IF tt.unlabeled = NoneData THEN tv.unlabeled
               ELSE IF tv.unlabeled = NoneData THEN tt.unlabeled
               ELSE VStack(tt.unlabeled, tv.unlabeled)
        eu == IF unl = NoneData THEN [err |-> NoError, X |-> NoneData, y |-> NoneArr]
              ELSE extend_Xy(B, unl, NoneArr, FALSE, << >>)
        \* line 135
        s3 == build_model(s2, 1, w0)
        fail(e, s, stage) == [err |-> e, self |-> s, loc |-> NoFit, stage |-> stage]
    IN
    IF cx.err.exc # "none" THEN fail(cx.err, self, "arguments")
    ELSE IF ~LabelsOrdered(cx.classes)
        THEN fail(RaiseLists("ValueError", "y", "labels are not ordered", RangeList(k), cx.classes), self, "arguments")
    ELSE IF useSplit /\ SplitRaises(y, vf)
        THEN fail(Raise("ValueError", "StratifiedShuffleSplit", "too few samples"), s1, "teardown")
    ELSE IF val.present /\ cv.err.exc # "none" THEN fail(cv.err, s1, "teardown")
    ELSE IF val.present /\ UnknownError("y_val", cv.classes, k).exc # "none"
        THEN fail(UnknownError("y_val", cv.classes, k), s1, "teardown")
    ELSE IF tt.err.exc # "none" THEN fail(tt.err, s2, "tokenizer")
    \* lines 99-101 index the labeled rows by the positions of all of y_train_
    ELSE IF Truthy(self.params.verbose) /\ tt.unlabeled # NoneData
        THEN fail(Raise("IndexError", "X_train_tokenized", "index out of bounds"), s2, "tokenizer")
    ELSE IF et.err.exc # "none" THEN fail(et.err, s2, "tokenizer")
    ELSE IF has_val /\ tv.err.exc # "none" THEN fail(tv.err, s2, "tokenizer")
    ELSE IF has_val /\ ev.err.exc # "none" THEN fail(ev.err, s2, "tokenizer")
    ELSE IF eu.err.exc # "none" THEN fail(eu.err, s2, "tokenizer")
    \* line 152: y_val_.tolist() exists for an ndarray only
    ELSE IF has_val /\ y_val_.t # "ndarray"
        THEN fail(Raise("AttributeError", "y_val_", "no attribute tolist"), s3, "model")
    ELSE [err |-> NoError, self |-> s3, stage |-> "model",
          loc |-> [NoFit EXCEPT
                     !.X_train = et.X, !.y_train = et.y, !.has_val = has_val,
                     !.X_val = IF has_val THEN ev.X ELSE NoneData,
                     !.y_val = IF has_val THEN ev.y ELSE NoneArr,
                     !.y_val_ = IF has_val THEN [i \in DOMAIN y_val_.items |-> PyInt(y_val_.items[i])] ELSE << >>,
                     !.X_unlabeled = eu.X,
                     !.bounds_train = BoundsCeil(et.X[1].shape[1], B),
                     !.bounds_val = IF has_val THEN BoundsCeil(ev.X[1].shape[1], B) ELSE << >>,
                     !.ops_graph = 1]]

(***************************************************************************)
(* fit, last part (lines 251-328): the certainty threshold.                *)
(***************************************************************************)
\* mean_probs.max(axis=-1) of every row the batches cover, 0 elsewhere
Confidences(w, nc, M, dataset, bounds) ==
    LET covered(r) == \E b \in DOMAIN bounds : bounds[b][1] < r /\ r <= bounds[b][2]
    IN [r \in 1..dataset[1].shape[1] |->
          IF covered(r) THEN SeqMax(MeanProbs(w, dataset[1].data[r], nc, M)) ELSE 0]

\* probabilities >= threshold, as 0 / 1
AtLeast(probabilities, threshold) ==
    [i \in DOMAIN probabilities |-> IF probabilities[i] >= threshold THEN 1 ELSE 0]

\* one pass of the loop body of lines 316-320 at one threshold; st holds
\* best_threshold and best_f1
SweepStep(threshold, st, y_true, probabilities) ==
    LET f1 == F1Binary(y_true, AtLeast(probabilities, threshold))
    IN IF FracLess(st.best_f1, f1) THEN [best_threshold |-> threshold, best_f1 |-> f1] ELSE st

\* the one element of a singleton set: binding a value as the element of a
\* singleton fixes it before it is used
Only(S) == CHOOSE x \in S : TRUE

\* the passes for the thresholds lo, lo + 1, ..., hi in this order (the range
\* is halved, and the state after the first half fixed before the second is
\* entered, only to keep the evaluation shallow)
RECURSIVE SweepRange(_, _, _, _, _)
SweepRange(lo, hi, st, y_true, probabilities) ==
    IF lo > hi THEN st
    ELSE IF lo = hi THEN SweepStep(lo, st, y_true, probabilities)
    ELSE LET mid == (lo + hi) \div 2
         IN Only({SweepRange(mid + 1, hi, first, y_true, probabilities) :
                     first \in {SweepRange(lo, mid, st, y_true, probabilities)}})

\* lines 304-321: the grid 0.001, 0.002, ..., 0.999
SweepThreshold(labeled, another) ==
    LET y_true == [i \in 1..(Len(labeled) + Len(another)) |-> IF i <= Len(labeled) THEN 1 ELSE 0]
        start == {[y_true |-> y_true, probabilities |-> labeled \o another,
                   best_f1 |-> F1Binary(y_true, AtLeast(labeled \o another, 1))]}
    IN Only({SweepRange(2, FloatUnit - 1, [best_threshold |-> 1, best_f1 |-> s.best_f1],
                        s.y_true, s.probabilities) : s \in start}).best_threshold

\* the threshold fit stores, from the model the instance holds after the loop
Calibrate(self, loc) ==
    LET nc == self.n_classes_
        M == self.params.num_monte_carlo.v
        labeled == IF loc.has_val
                   THEN Confidences(self.sess_.w, nc, M, loc.X_val, loc.bounds_val)
                   ELSE Confidences(self.sess_.w, nc, M, loc.X_train, loc.bounds_train)
        another == Confidences(self.sess_.w, nc, M, loc.X_unlabeled,
                               BoundsCeil(loc.X_unlabeled[1].shape[1], self.params.batch_size.v))
    IN IF loc.X_unlabeled = NoneData THEN SeqMin(labeled) ELSE SweepThreshold(labeled, another)

\* every batch of a dataset passes the assertion of fill_feed_dict
BatchesOk(batch_size, dataset, bounds) ==
    \A b \in DOMAIN bounds :
        fill_feed_dict_ok(batch_size, [c \in 1..3 |-> Slice(dataset[c], bounds[b][1], bounds[b][2])])

(***************************************************************************)
(* The inputs the operations are called with.                              *)
(***************************************************************************)
Weights == 0..(NWeights - 1)
Labels == (-1)..MaxLabel

\* the quality a training epoch can reach (the streaming accuracy of line 171)
MaxScore == 2
Scores == 0..MaxScore

\* largest batch_size, max_epochs and patience an instance is constructed with
MaxBatch == 2
MaxEpochs == 2
MaxPatience == 2

\* a list of n texts
TextsOf(f) == ListV([i \in DOMAIN f |-> StrV(f[i])])
\* the texts 1, 2, ..., NTexts, 1, 2, ... of a data set of n samples
XOf(n) == ListV([i \in 1..n |-> StrV(((i - 1) % NTexts) + 1)])
LabelsOf(f) == [i \in DOMAIN f |-> IntV(f[i])]

\* the label vectors of lo to hi entries; past the third entry a vector
\* repeats its third
LabelVectors(lo, hi) ==
    UNION {{f \in [1..n -> Labels] : \A i \in 4..n : f[i] = f[3]} : n \in lo..hi}

Params(bs, ep, pat, vf, verbose, seed) ==
    [DefaultParams EXCEPT !.batch_size = IntV(bs), !.max_epochs = IntV(ep), !.patience = IntV(pat),
                          !.validation_fraction = FloatV(vf), !.verbose = BoolV(verbose),
                          !.random_seed = seed, !.num_monte_carlo = IntV(2)]

\* the hyperparameters an instance is constructed with; batch_size 0,
\* max_epochs 0 and patience 0 are the invalid ones
ParamChoices ==
    {Params(bs, 1, 1, 0, 0, NoneV) : bs \in 0..MaxBatch}
    \cup {Params(1, ep, pat, 0, 0, NoneV) : ep \in 0..MaxEpochs, pat \in 0..MaxPatience}
    \cup {Params(2, 1, 1, vf, verbose, seed) : vf \in {0, FloatUnit \div 2}, verbose \in {0, 1},
                                                 seed \in {NoneV, IntV(42)}}

\* the hyperparameters of the instances whose fit is given any arguments
ParamsFit ==
    {Params(bs, 1, 1, 0, 0, NoneV) : bs \in 0..MaxBatch}
    \cup {Params(1, 2, 1, 0, 0, NoneV), Params(1, 0, 1, 0, 0, NoneV),
          Params(2, 1, 1, FloatUnit \div 2, 0, NoneV), Params(2, 1, 1, 0, 1, NoneV)}

\* the (X, y) pairs handed to fit: every label vector, the malformed ones,
\* and one large enough to be split
DataPairs ==
    {[X |-> XOf(Len(f)), y |-> ListV(LabelsOf(f))] : f \in LabelVectors(2, MaxLen)}
    \cup {[X |-> XOf(3), y |-> ListV(LabelsOf(<<0, 1>>))],
          [X |-> XOf(2), y |-> ListV(<<IntV(0), NoneV>>)],
          [X |-> XOf(2), y |-> ListV(<<IntV(0), FloatV(FloatUnit + FloatUnit \div 2)>>)],
          [X |-> XOf(2), y |-> ScalarObj],
          [X |-> XOf(4), y |-> ListV(LabelsOf(<<0, 0, 1, 1>>))]}

\* the validation_data handed to fit
ValChoices ==
    {[present |-> TRUE, X |-> XOf(2), y |-> NdArrayV(1, LabelsOf(f))] : f \in LabelVectors(2, 2)}
    \cup {[present |-> TRUE, X |-> XOf(2), y |-> ListV(LabelsOf(<<0, 1>>))],
          [present |-> TRUE, X |-> XOf(3), y |-> NdArrayV(1, LabelsOf(<<0, 1, -1>>))],
          [present |-> TRUE, X |-> XOf(3), y |-> NdArrayV(1, LabelsOf(<<0, 1>>))]}

\* the arguments of fit: every data pair without validation_data, and two
\* well-formed pairs with every validation_data
FitArgs ==
    {[X |-> d.X, y |-> d.y, val |-> NoVal] : d \in DataPairs}
    \cup {[X |-> XOf(Len(f)), y |-> ListV(LabelsOf(f)), val |-> v] :
             f \in {<<0, 1>>, <<1, 0, -1>>}, v \in ValChoices}

\* the arguments of a fit that follows an earlier one on the same instance
RefitCases ==
    {[X |-> XOf(Len(f)), y |-> ListV(LabelsOf(f)), val |-> NoVal] : f \in {<<0, 1>>, <<0, 2>>}}
    \cup {[X |-> XOf(2), y |-> ListV(LabelsOf(<<0, 1>>)),
           val |-> [present |-> TRUE, X |-> XOf(2), y |-> NdArrayV(1, LabelsOf(f))]] :
             f \in {<<0, 1>>, <<0, 2>>}}

\* the arguments of fit in the life of one instance
FitCases ==
    {[X |-> XOf(Len(f)), y |-> ListV(LabelsOf(f)), val |-> NoVal] :
        f \in {<<0, 1>>, <<0, 1, 1>>, <<1, 0, -1>>, <<0, 2>>}}
    \cup {[X |-> XOf(3), y |-> ListV(LabelsOf(<<0, 1>>)), val |-> NoVal]}
    \cup {[X |-> XOf(2), y |-> ListV(LabelsOf(<<0, 1>>)),
           val |-> [present |-> TRUE, X |-> XOf(2), y |-> NdArrayV(1, LabelsOf(f))]] :
             f \in {<<0, 1>>, <<0, 2>>}}

\* the X handed to predict_proba and predict
PredictInputs ==
    {XOf(n) : n \in 1..MaxLen}
    \cup {TextsOf(<<t>>) : t \in 1..NTexts}
    \cup {TextsOf(<<2, 1>>), ListV(<<StrV(1), IntV(7)>>), ScalarObj}

(***************************************************************************)
(* The state.                                                              *)
(***************************************************************************)
VARIABLES
    cls,        \* the estimator instance
    another,    \* the instance made by copy.copy or pickle.load, if any
    has_another,
    blob,       \* the state pickle.dump obtained from dump_all, if any
    disk,       \* the checkpoint files on disk
    pc,         \* where the caller is: "idle", inside fit, or holding a result
    fit_,       \* the locals of the running fit
    result      \* what the last call returned or raised

vars == <<cls, another, has_another, blob, disk, pc, fit_, result>>

NoResult ==
    [op |-> "none", err |-> NoError, X |-> ListV(<< >>), y |-> ListV(<< >>), val |-> NoVal,
     proba |-> << >>, classes |-> << >>, f1 |-> <<0, 1>>, stage |-> "", steps |-> 0, before |-> NewInstance(DefaultParams)]

Init ==
    /\ cls \in {NewInstance(p) : p \in ParamChoices}
    /\ another = NewInstance(DefaultParams)
    /\ has_another = FALSE
    /\ blob = NoBlob
    /\ disk = << >>
    /\ pc = "idle"
    /\ fit_ = NoFit
    /\ result = NoResult

\* the (X, y) pairs handed to score
ScorePairs ==
    {[X |-> XOf(Len(f)), y |-> ListV(LabelsOf(f))] : f \in {g \in LabelVectors(2, 2) : g[1] \in {0, 1}}}
    \cup {[X |-> XOf(3), y |-> ListV(LabelsOf(<<0, 1>>))]}

\* the test parts StratifiedShuffleSplit can draw from n samples
TestParts(n, validation_fraction) ==
    {T \in SUBSET (0..(n - 1)) : Cardinality(T) = NTest(n, validation_fraction)}

(***************************************************************************)
(* fit(X, y, validation_data): the call and its first part.                *)
(***************************************************************************)
FitBegin(X, y, val, test_index, w0) ==
    LET r == FitSetup(cls, X, y, val, test_index, w0)
        call == [NoResult EXCEPT !.op = "fit", !.X = X, !.y = y, !.val = val, !.before = cls,
                                 !.stage = r.stage]
    IN
    /\ pc = "idle"
    /\ cls' = r.self
    /\ IF r.err.exc # "none"
       THEN /\ pc' = "returned"
            /\ fit_' = NoFit
            /\ result' = [call EXCEPT !.err = r.err]
       ELSE /\ pc' = IF InRange(0, cls.params.max_epochs.v) THEN "fit_loop" ELSE "fit_finally"
            /\ fit_' = r.loc
            /\ result' = call
    /\ UNCHANGED <<another, has_another, blob, disk>>

FitCall(a, w0) ==
    IF ~a.val.present /\ cls.params.validation_fraction.v > 0 /\ IsListLike(a.y)
    THEN \E test_index \in TestParts(Len(a.y.items), cls.params.validation_fraction.v) :
            FitBegin(a.X, a.y, a.val, test_index, w0)
    ELSE FitBegin(a.X, a.y, a.val, {}, w0)

\* fit in the life of an instance: before the instance is copied or dumped
Fit ==
    /\ ~has_another
    /\ ~blob.present
    /\ \E a \in FitCases, w0 \in Weights :
          /\ cls.attrs # {} => a \in RefitCases
          /\ FitCall(a, w0)

\* a first fit, with any of the arguments
FitAny ==
    /\ ~(FittedAttrs \cap cls.attrs # {})
    /\ \E a \in FitArgs, w0 \in Weights : FitCall(a, w0)

(***************************************************************************)
(* One iteration of the epoch loop (lines 162-247).  w1 are the weights    *)
(* the optimizer steps of the epoch leave, acc the quality the epoch       *)
(* reaches.                                                               *)
(***************************************************************************)
FitEpoch ==
    /\ pc = "fit_loop"
    /\ \E w1 \in Weights, acc \in Scores :
        LET B == cls.params.batch_size.v
            stale == fit_.ops_graph # cls.sess_.graph
            trained == [cls EXCEPT !.sess_.w = w1]
            steps == fit_.steps + Len(fit_.bounds_train)
            improved == fit_.best_acc = -1 \/ acc > fit_.best_acc
            n_wo == IF improved THEN 0 ELSE fit_.n_epochs_without_improving + 1
            disk1 == IF improved THEN save_model(disk, "fit", w1) ELSE disk
            selected == [fit_ EXCEPT !.steps = steps,
                                     !.best_acc = IF improved THEN acc ELSE @,
                                     !.saved = improved \/ @,
                                     !.n_epochs_without_improving = n_wo]
            raise(e, self, loc, d) ==
                /\ cls' = self
                /\ fit_' = [loc EXCEPT !.exc = e]
                /\ disk' = d
                /\ pc' = "fit_finally"
        IN
        \* fill_feed_dict of the first training batch
        IF ~BatchesOk(B, fit_.X_train, fit_.bounds_train)
        THEN raise(Raise("AssertionError", "fill_feed_dict", "len(X[0]) == batch_size"), cls, fit_, disk)
        \* line 170: train_op was created by the build_model of line 135
        ELSE IF stale
        THEN raise(Raise("ValueError", "train_op", "not an element of this graph"), cls, fit_, disk)
        ELSE IF fit_.has_val
        THEN IF ~BatchesOk(B, fit_.X_val, fit_.bounds_val)
             THEN raise(Raise("AssertionError", "fill_feed_dict", "len(X[0]) == batch_size"),
                        trained, [fit_ EXCEPT !.steps = steps], disk)
             \* line 181: acc_test is a float, batch_size * acc_test_ a list
             ELSE raise(Raise("TypeError", "acc_test", "float += list"),
                        trained, [fit_ EXCEPT !.steps = steps], disk)
        \* line 239: acc_train is a list, the format specification is a float's
        ELSE IF Truthy(cls.params.verbose)
        THEN raise(Raise("TypeError", "acc_train", "unsupported format string"), trained, selected, disk1)
        ELSE IF n_wo >= cls.params.patience.v
        THEN /\ cls' = trained
             /\ fit_' = selected
             /\ disk' = disk1
             /\ pc' = "fit_finally"
        ELSE /\ \E w0 \in Weights :
                  cls' = load_model(build_model(finalize_model(trained), cls.sess_.graph + 1, w0), disk1, "fit")
             /\ fit_' = [selected EXCEPT !.epoch = @ + 1]
             /\ disk' = disk1
             /\ pc' = IF InRange(fit_.epoch + 1, cls.params.max_epochs.v) THEN "fit_loop" ELSE "fit_finally"
    /\ UNCHANGED <<another, has_another, blob, result>>

(***************************************************************************)
(* The finally clause of the loop (lines 248-250), the certainty threshold *)
(* (lines 251-327) and the return.  concat_dtype tells whether the numpy   *)
(* installed accepts np.concatenate(..., dtype=...) (line 309).            *)
(***************************************************************************)
FitFinish ==
    /\ pc = "fit_finally"
    /\ disk' = RemoveFiles(disk, find_all_model_files(disk, "fit"))
    /\ fit_' = NoFit
    /\ pc' = "returned"
    /\ \E concat_dtype \in BOOLEAN :
        LET B == cls.params.batch_size.v
            batchesOk == IF fit_.has_val THEN BatchesOk(B, fit_.X_val, fit_.bounds_val)
                         ELSE BatchesOk(B, fit_.X_train, fit_.bounds_train)
            done(e, self) ==
                /\ cls' = self
                /\ result' = [result EXCEPT !.err = e, !.steps = fit_.steps]
        IN
        IF fit_.exc.exc # "none" THEN done(fit_.exc, cls)
        ELSE IF ~batchesOk
        THEN done(Raise("AssertionError", "fill_feed_dict", "len(X[0]) == batch_size"), cls)
        ELSE IF fit_.X_unlabeled # NoneData
                /\ ~BatchesOk(B, fit_.X_unlabeled, BoundsCeil(fit_.X_unlabeled[1].shape[1], B))
        THEN done(Raise("AssertionError", "fill_feed_dict", "len(X[0]) == batch_size"), cls)
        ELSE IF fit_.X_unlabeled # NoneData /\ ~concat_dtype
        THEN done(Raise("TypeError", "concatenate", "dtype is an invalid keyword argument"), cls)
        ELSE done(NoError, [cls EXCEPT !.certainty_threshold_ = Calibrate(cls, fit_),
                                       !.attrs = @ \cup {"certainty_threshold_"}])
    /\ UNCHANGED <<another, has_another, blob>>

(***************************************************************************)
(* The inference calls, on the instance itself or on the copied /          *)
(* restored one.                                                           *)
(***************************************************************************)
Targets == {"cls"} \cup (IF has_another THEN {"another"} ELSE {})
Instance(target) == IF target = "cls" THEN cls ELSE another

CallPredictProba(target, X) ==
    /\ pc = "idle"
    /\ result' = [NoResult EXCEPT !.op = "predict_proba", !.X = X, !.before = Instance(target),
                                  !.stage = target,
                                  !.err = predict_proba(Instance(target), X).err,
                                  !.proba = predict_proba(Instance(target), X).proba]
    /\ pc' = "returned"
    /\ UNCHANGED <<cls, another, has_another, blob, disk, fit_>>

PredictProba == \E target \in Targets, X \in PredictInputs : CallPredictProba(target, X)

CallPredictLogProba(target, X) ==
    /\ pc = "idle"
    /\ result' = [NoResult EXCEPT !.op = "predict_log_proba", !.X = X, !.before = Instance(target),
                                  !.stage = target,
                                  !.err = predict_log_proba(Instance(target), X).err,
                                  !.proba = predict_log_proba(Instance(target), X).proba]
    /\ pc' = "returned"
    /\ UNCHANGED <<cls, another, has_another, blob, disk, fit_>>

PredictLogProba == \E target \in Targets, X \in PredictInputs : CallPredictLogProba(target, X)

CallPredict(target, X) ==
    /\ pc = "idle"
    /\ result' = [NoResult EXCEPT !.op = "predict", !.X = X, !.before = Instance(target),
                                  !.stage = target,
                                  !.err = predict(Instance(target), X).err,
                                  !.proba = predict(Instance(target), X).proba,
                                  !.classes = predict(Instance(target), X).classes]
    /\ pc' = "returned"
    /\ UNCHANGED <<cls, another, has_another, blob, disk, fit_>>

Predict == \E target \in Targets, X \in PredictInputs : CallPredict(target, X)

CallScore(X, y) ==
    /\ pc = "idle"
    /\ result' = [NoResult EXCEPT !.op = "score", !.X = X, !.y = y, !.before = cls, !.stage = "cls",
                                  !.err = score(cls, X, y).err,
                                  !.f1 = score(cls, X, y).f1,
                                  !.classes = score(cls, X, y).classes]
    /\ pc' = "returned"
    /\ UNCHANGED <<cls, another, has_another, blob, disk, fit_>>

Score == \E d \in ScorePairs : CallScore(d.X, d.y)

(***************************************************************************)
(* copy.copy(cls), pickle.dump(cls) and pickle.load of the dumped state.   *)
(***************************************************************************)
Copy ==
    /\ pc = "idle"
    /\ another' = copy_(cls)
    /\ has_another' = TRUE
    /\ result' = [NoResult EXCEPT !.op = "copy", !.before = cls]
    /\ pc' = "returned"
    /\ UNCHANGED <<cls, blob, disk, fit_>>

\* dump_all saves the model under a temporary name, reads the files and
\* removes them again
Dump ==
    /\ pc = "idle"
    \* get_temp_model_name draws a name that no file has
    /\ find_all_model_files(disk, "dump") = {}
    /\ blob' = dump_all(cls)
    /\ disk' = DumpFiles(cls, disk)
    /\ result' = [NoResult EXCEPT !.op = "dump", !.before = cls]
    /\ pc' = "returned"
    /\ UNCHANGED <<cls, another, has_another, fit_>>

\* pickle.load: __new__, then __setstate__ calls load_all on the empty object
Load ==
    /\ pc = "idle"
    /\ blob.present
    /\ LET r == load_all(NewInstance(DefaultParams), blob, disk)
       IN /\ IF r.err.exc = "none"
             THEN another' = r.self /\ has_another' = TRUE
             ELSE UNCHANGED <<another, has_another>>
          /\ disk' = r.disk
          /\ result' = [NoResult EXCEPT !.op = "load", !.before = cls, !.err = r.err]
    /\ pc' = "returned"
    /\ UNCHANGED <<cls, blob, fit_>>

\* the caller takes the result of the call
Return ==
    /\ pc = "returned"
    /\ pc' = "idle"
    /\ result' = NoResult
    /\ UNCHANGED <<cls, another, has_another, blob, disk, fit_>>

Next ==
    \/ Fit
    \/ FitEpoch
    \/ FitFinish
    \/ PredictProba
    \/ PredictLogProba
    \/ Predict
    \/ Score
    \/ Copy
    \/ Dump
    \/ Load
    \/ Return

Spec == Init /\ [][Next]_vars

\* one call of fit on a new instance, with any of the arguments
NextFit ==
    \/ FitAny
    \/ FitEpoch
    \/ FitFinish

InitFit ==
    /\ Init
    /\ cls \in {NewInstance(p) : p \in ParamsFit}

SpecFit == InitFit /\ [][NextFit]_vars

(***************************************************************************)
(* check_params as a function of its keyword arguments: the arguments are  *)
(* the defaults of the constructor with up to two of them replaced.        *)
(***************************************************************************)
NpV(type, n) == [t |-> type, v |-> n]

KwScalars ==
    {Missing, NoneV, IntV(0), IntV(1), BoolV(1), NpV("np.int32", 1), NpV("np.int32", 0),
     NpV("np.uint32", 1), FloatV(0), FloatV(FloatUnit \div 2), FloatV(FloatUnit),
     FloatV(2 * FloatUnit), NpV("np.float32", FloatUnit \div 2), StrV(0), StrV(5)}

KwContainers ==
    {TupleV(<< >>), TupleV(<<IntV(1)>>), ListV(<<IntV(1), IntV(0)>>),
     ListV(<<IntV(1), FloatV(FloatUnit)>>), NdArrayV(1, <<NpV("np.int32", 1)>>),
     NdArrayV(2, <<NpV("np.int32", 1)>>)}

KwValues == KwScalars \cup KwContainers

KwChoices ==
    {[[DefaultParams EXCEPT ![a] = u] EXCEPT ![b] = v] :
        a \in HyperNames, b \in HyperNames, u \in KwValues, v \in KwValues}

InitParams ==
    /\ cls \in {NewInstance(kw) : kw \in KwChoices}
    /\ another = NewInstance(DefaultParams)
    /\ has_another = FALSE
    /\ blob = NoBlob
    /\ disk = << >>
    /\ pc = "idle"
    /\ fit_ = NoFit
    /\ result = NoResult

CheckParams ==
    /\ pc = "idle"
    /\ result' = [NoResult EXCEPT !.op = "check_params", !.before = cls, !.stage = "cls",
                                  !.err = check_params(cls.params)]
    /\ pc' = "returned"
    /\ UNCHANGED <<cls, another, has_another, blob, disk, fit_>>

NextParams == CheckParams

SpecParams == InitParams /\ [][NextParams]_vars

(***************************************************************************)
(* check_Xy as a function of its arguments.                                *)
(***************************************************************************)
XyLabels ==
    {IntV(n) : n \in Labels}
    \cup {NoneV, StrV(1), BoolV(1), FloatV(FloatUnit), FloatV(FloatUnit + FloatUnit \div 2)}

XyLabelVectors == UNION {[1..n -> XyLabels] : n \in 0..MaxLen}

XyTexts ==
    {XOf(n) : n \in 0..MaxLen}
    \cup {ScalarObj, NdArrayV(2, <<StrV(1), StrV(2)>>), ListV(<<StrV(1), IntV(2)>>),
          TupleV(<<StrV(1), StrV(2)>>), NdArrayV(1, <<StrV(1), StrV(2)>>)}

XyTargets ==
    {ListV(f) : f \in XyLabelVectors}
    \cup {TupleV(f) : f \in [1..2 -> XyLabels]}
    \cup {NdArrayV(d, LabelsOf(f)) : d \in 1..2, f \in [1..2 -> Labels]}
    \cup {ScalarObj}

InitXy ==
    /\ cls = NewInstance(DefaultParams)
    /\ another = NewInstance(DefaultParams)
    /\ has_another = FALSE
    /\ blob = NoBlob
    /\ disk = << >>
    /\ pc = "idle"
    /\ fit_ = NoFit
    /\ result = NoResult

CheckXy ==
    /\ pc = "idle"
    /\ \E X \in XyTexts, y \in XyTargets :
        result' = [NoResult EXCEPT !.op = "check_Xy", !.X = X, !.y = y, !.before = cls,
                                   !.stage = "cls",
                                   !.err = check_Xy(X, "X", y, "y").err,
                                   !.classes = check_Xy(X, "X", y, "y").classes]
    /\ pc' = "returned"
    /\ UNCHANGED <<cls, another, has_another, blob, disk, fit_>>

NextXy == CheckXy \/ Return

SpecXy == InitXy /\ [][NextXy]_vars

(***************************************************************************)
(* Serialization next to other users of the temporary directory: between   *)
(* dump_all and load_all a file appears under one of the names load_all    *)
(* will write.                                                             *)
(***************************************************************************)
Foreign ==
    /\ pc = "idle"
    /\ blob.present
    /\ find_all_model_files(disk, "dump") = {}
    /\ \E sfx \in blob.model_files : disk' = WriteFiles(disk, {<<"dump", sfx>>}, NWeights)
    /\ UNCHANGED <<cls, another, has_another, blob, pc, fit_, result>>

InitLoad ==
    /\ cls \in {NewInstance(Params(bs, 1, 1, 0, 0, NoneV)) : bs \in 1..MaxBatch}
    /\ another = NewInstance(DefaultParams)
    /\ has_another = FALSE
    /\ blob = NoBlob
    /\ disk = << >>
    /\ pc = "idle"
    /\ fit_ = NoFit
    /\ result = NoResult

NextLoad ==
    \/ Fit
    \/ FitEpoch
    \/ FitFinish
    \/ Dump
    \/ Foreign
    \/ Load
    \/ Return

SpecLoad == InitLoad /\ [][NextLoad]_vars

(***************************************************************************)
(* One call of fit run to its end: the interpreter executes the statements *)
(* of the call one after another, so an epoch that can run does run and    *)
(* the finally clause is executed once the loop has been left.             *)
(***************************************************************************)
NextFitLive ==
    \/ Fit
    \/ FitEpoch
    \/ FitFinish

SpecFitLive == Init /\ [][NextFitLive]_vars /\ WF_vars(FitEpoch) /\ WF_vars(FitFinish)

(***************************************************************************)
(* extend_Xy as a function of the tokenized rows, the labels, the batch    *)
(* size and the shuffle flag.  The rows and labels are held where fit      *)
(* holds them before the call; the returned pair is kept in result.        *)
(***************************************************************************)
ExtendRows == UNION {[1..n -> 1..NTexts] : n \in 1..MaxLen}

\* the orders np.random.shuffle can leave n indices in
Orders(n) == {p \in [1..n -> 0..(n - 1)] : \A i, j \in 1..n : i # j => p[i] # p[j]}

InitExtend ==
    /\ cls \in {NewInstance(Params(bs, 1, 1, 0, 0, NoneV)) : bs \in 1..MaxBatch}
    /\ another = NewInstance(DefaultParams)
    /\ has_another = FALSE
    /\ blob = NoBlob
    /\ disk = << >>
    /\ pc = "idle"
    /\ result = NoResult
    /\ \E rows \in ExtendRows :
        \E y \in {NoneArr} \cup {Arr1(f) : f \in [1..Len(rows) -> 0..MaxLabel]} :
            fit_ = [NoFit EXCEPT !.X_train = TokenizeRows(TextsOf(rows).items), !.y_train = y]

ExtendXy ==
    /\ pc = "idle"
    /\ \E shuffle \in BOOLEAN :
        LET B == cls.params.batch_size.v
            n == fit_.X_train[1].shape[1]
            padded == IF n % B = 0 THEN n ELSE n + (B - (n % B))
        IN
        \E perm \in IF shuffle /\ fit_.y_train = NoneArr THEN Orders(padded) ELSE {<< >>} :
            \A ext \in {extend_Xy(B, fit_.X_train, fit_.y_train, shuffle, perm)} :
                result' = [NoResult EXCEPT !.op = "extend_Xy", !.err = ext.err, !.X = ext.X, !.y = ext.y,
                                           !.stage = IF shuffle THEN "shuffle" ELSE "",
                                           !.before = cls]
    /\ pc' = "returned"
    /\ UNCHANGED <<cls, another, has_another, blob, disk, fit_>>

NextExtend == ExtendXy \/ Return

SpecExtend == InitExtend /\ [][NextExtend]_vars

(***************************************************************************)
(* tokenize_all as a function of the texts and their labels, negative      *)
(* labels marking the unlabeled samples.  The returned triple is held      *)
(* where fit holds it after the call.                                      *)
(***************************************************************************)
TokenizeLabels == (0 - 2)..MaxLabel

InitTokenize ==
    /\ cls = NewInstance(DefaultParams)
    /\ another = NewInstance(DefaultParams)
    /\ has_another = FALSE
    /\ blob = NoBlob
    /\ disk = << >>
    /\ pc = "idle"
    /\ fit_ = NoFit
    /\ \E n \in 1..MaxLen :
        \E texts \in [1..n -> 1..NTexts], labels \in [1..n -> TokenizeLabels] :
            result = [NoResult EXCEPT !.X = TextsOf(texts), !.y = ListV(LabelsOf(labels))]

TokenizeAll ==
    /\ pc = "idle"
    /\ result.op = "none"
    /\ \A t \in {tokenize_all(result.X, result.y)} :
        fit_' = [NoFit EXCEPT !.X_train = t.X, !.y_train = t.y, !.X_unlabeled = t.unlabeled, !.exc = t.err]
    /\ result' = [result EXCEPT !.op = "tokenize_all"]
    /\ pc' = "returned"
    /\ UNCHANGED <<cls, another, has_another, blob, disk>>

NextTokenize == TokenizeAll

SpecTokenize == InitTokenize /\ [][NextTokenize]_vars

(***************************************************************************)
(* Properties.  A call that has returned is described by result: its       *)
(* arguments, the instance it was made on (before) and what it gave.       *)
(***************************************************************************)
Returned(op) == pc = "returned" /\ result.op = op
Succeeded(op) == Returned(op) /\ result.err.exc = "none"

\* the 0-based index of the first cell of a row that holds the row's maximum
FirstMaxIndex(row) ==
    (CHOOSE c \in DOMAIN row : row[c] = SeqMax(row) /\ \A d \in 1..(c - 1) : row[d] < row[c]) - 1

\* C1: on a fitted instance, the i-th answer of predict is the arg-max of the
\* i-th row of predict_proba for the same input when the maximum of that row
\* is at least certainty_threshold_, and it is -1 exactly when that maximum is
\* below certainty_threshold_
C1_PredictIsArgMaxOrUnknown ==
    Succeeded("predict") =>
        /\ is_fitted(result.before).exc = "none"
        /\ result.proba = predict_proba(result.before, result.X).proba
        /\ DOMAIN result.classes = DOMAIN result.proba
        /\ \A i \in DOMAIN result.proba :
              /\ SeqMax(result.proba[i]) >= result.before.certainty_threshold_
                    => result.classes[i] = FirstMaxIndex(result.proba[i])
              /\ result.classes[i] = -1
                    <=> SeqMax(result.proba[i]) < result.before.certainty_threshold_

\* predict has answered a class for one input and -1 for another
C1_Witness ==
    /\ Succeeded("predict")
    /\ \E i \in DOMAIN result.classes : result.classes[i] >= 0
    /\ \E i \in DOMAIN result.classes : result.classes[i] = -1

\* a newly constructed instance: no fit and no restoration has touched it
IsNew(self) == self = NewInstance(self.params)

InferenceOps == {"predict_proba", "predict_log_proba", "predict", "score"}

\* the arguments of an inference call are well-formed
WellFormedCall ==
    IF result.op = "score" THEN check_Xy(result.X, "X", result.y, "y").err.exc = "none"
    ELSE check_X(result.X, "X").exc = "none"

\* C2: score, predict, predict_proba and predict_log_proba raise
\* NotFittedError on a newly constructed instance with valid hyperparameters
\* and well-formed arguments
C2_NotFittedBeforeFit ==
    (/\ pc = "returned"
     /\ result.op \in InferenceOps
     /\ IsNew(result.before)
     /\ check_params(result.before.params).exc = "none"
     /\ WellFormedCall)
        => result.err.exc = "NotFittedError"

\* score has raised NotFittedError on a new instance with valid
\* hyperparameters and well-formed X and y
C2_Witness ==
    /\ Returned("score")
    /\ IsNew(result.before)
    /\ check_params(result.before.params).exc = "none"
    /\ WellFormedCall
    /\ result.err.exc = "NotFittedError"

\* the instance answers predict on every input as the other one does
SamePredictions(a, b) ==
    \A X \in PredictInputs : predict(a, X) = predict(b, X)

\* C3: dump_all of a fitted instance with valid hyperparameters followed by
\* load_all gives a fitted instance with the same hyperparameters, n_classes_
\* and certainty_threshold_ whose predict answers as the dumped instance's
C3_RoundTripKeepsFittedState ==
    (/\ Returned("load")
     /\ is_fitted(cls).exc = "none"
     /\ check_params(cls.params).exc = "none"
     /\ blob = dump_all(cls))
        => /\ result.err.exc = "none"
           /\ has_another
           /\ is_fitted(another).exc = "none"
           /\ "certainty_threshold_" \in another.attrs
           /\ another.params = cls.params
           /\ another.n_classes_ = cls.n_classes_
           /\ another.certainty_threshold_ = cls.certainty_threshold_
           /\ SamePredictions(another, cls)

\* C4: copy.copy of a fitted instance gives a fitted instance with the same
\* hyperparameters, n_classes_, certainty_threshold_ and fitted attributes
\* whose predict answers as the original's
C4_CopyKeepsFittedState ==
    (Returned("copy") /\ is_fitted(cls).exc = "none")
        => /\ has_another
           /\ is_fitted(another).exc = "none"
           /\ another.attrs = cls.attrs
           /\ another.params = cls.params
           /\ another.n_classes_ = cls.n_classes_
           /\ another.certainty_threshold_ = cls.certainty_threshold_
           /\ another.sess_ = cls.sess_
           /\ SamePredictions(another, cls)

\* the classes check_Xy finds in the arguments of the fit call
FitClasses == check_Xy(result.X, "X", result.y, "y").classes

\* the ascending classes are exactly 0, 1, ..., k - 1
Contiguous(classes) == \A i \in DOMAIN classes : classes[i] = i - 1

\* nothing of a training run exists on the instance: no tokenizer, no
\* tensors, no session, and no optimizer step was made
NothingTrained ==
    /\ cls.attrs \cap ({"tokenizer_", "sess_"} \cup TensorAttrs) = {}
    /\ result.steps = 0
    /\ result.stage \in {"arguments", "teardown"}

\* the fit call is the plain one: valid hyperparameters, one silent epoch,
\* no validation data and no validation split
PlainFit ==
    /\ check_params(result.before.params).exc = "none"
    /\ result.before.params.max_epochs.v = 1
    /\ ~Truthy(result.before.params.verbose)
    /\ result.before.params.validation_fraction.v = 0
    /\ ~result.val.present

\* C5: for every label vector with matching X whose non-negative labels are
\* exactly 0..k-1, k >= 2, with or without negative labels, fit succeeds,
\* leaves the instance fitted and sets n_classes_ to k, whatever the number
\* of labeled samples and the batch size
C5_FitSucceedsOnContiguousLabels ==
    (/\ Returned("fit")
     /\ PlainFit
     /\ check_Xy(result.X, "X", result.y, "y").err.exc = "none"
     /\ Contiguous(FitClasses))
        => /\ result.err.exc = "none"
           /\ is_fitted(cls).exc = "none"
           /\ cls.n_classes_ = Len(FitClasses)

\* C6: fit raises the ValueError that names the expected list 0..k-1 and the
\* actual classes for every label vector whose k >= 2 ascending distinct
\* non-negative labels are not exactly 0..k-1, and for no other label vector
C6_ContiguityCheck ==
    (Returned("fit") /\ check_Xy(result.X, "X", result.y, "y").err.exc = "none")
        => IF Contiguous(FitClasses)
           THEN result.err.why # "labels are not ordered"
           ELSE /\ result.err.exc = "ValueError"
                /\ result.err.why = "labels are not ordered"
                /\ result.err.expected = [i \in DOMAIN FitClasses |-> i - 1]
                /\ result.err.actual = FitClasses

\* fit has rejected classes that start at 0 and are not contiguous
C6_Witness ==
    /\ Returned("fit")
    /\ result.err.why = "labels are not ordered"
    /\ FitClasses[1] = 0
    /\ ~Contiguous(FitClasses)

\* the labels of the fit call are malformed or not 0..k-1, or X and y differ
\* in length
BadLabels ==
    \/ check_Xy(result.X, "X", result.y, "y").err.exc # "none"
    \/ ~Contiguous(FitClasses)

\* the validation labels of the fit call hold a class outside 0..k-1
UnknownValClasses ==
    {c \in {check_Xy(result.val.X, "X_val", result.val.y, "y_val").classes[i] :
               i \in DOMAIN check_Xy(result.val.X, "X_val", result.val.y, "y_val").classes} :
        c >= Len(FitClasses)}

BadValidation ==
    /\ ~BadLabels
    /\ result.val.present
    /\ check_Xy(result.val.X, "X_val", result.val.y, "y_val").err.exc = "none"
    /\ UnknownValClasses # {}

\* C7: given malformed labels, X and y of different lengths, or validation
\* labels with a class outside 0..n_classes-1, fit raises a ValueError (one
\* that names the unknown classes, for validation data) before the tokenizer
\* is initialised, the model is built or an optimizer step is made
C7_ErrorsBeforeTraining ==
    (Returned("fit") /\ (BadLabels \/ BadValidation))
        => /\ result.err.exc = "ValueError"
           /\ result.err.msg # ""
           /\ NothingTrained
           /\ BadValidation =>
                 /\ result.err.msg = "y_val"
                 /\ {result.err.actual[i] : i \in DOMAIN result.err.actual} = UnknownValClasses

\* fit has rejected validation data with an unknown class
C7_Witness ==
    /\ Returned("fit")
    /\ BadValidation
    /\ result.err.why = "class is unknown"
    /\ NothingTrained

\* C8: fit, predict_proba and score reject invalid hyperparameters with the
\* error of check_params before anything else is computed
C8_ParamsCheckedFirst ==
    (/\ pc = "returned"
     /\ result.op \in {"fit", "predict_proba", "score"}
     /\ check_params(result.before.params).exc # "none")
        => /\ result.err = check_params(result.before.params)
           /\ result.op = "fit" => cls = result.before

\* the sum of the cells of a row
RECURSIVE RowSum(_)
RowSum(row) == IF row = << >> THEN 0 ELSE row[1] + RowSum(Tail(row))

\* C9: every row predict_proba returns sums to 1 within 1e-3 and every cell
\* is strictly between 0 and 1
C9_RowsAreDistributions ==
    Succeeded("predict_proba") =>
        \A i \in DOMAIN result.proba :
            /\ RowSum(result.proba[i]) \in (FloatUnit - 1)..(FloatUnit + 1)
            /\ \A c \in DOMAIN result.proba[i] :
                  0 < result.proba[i][c] /\ result.proba[i][c] < FloatUnit

\* the instance with another batch size
WithBatchSize(self, b) == [self EXCEPT !.params.batch_size = IntV(b)]

\* C10: for N >= 1 inputs predict_proba returns N rows of n_classes_ cells,
\* row i being what the model gives for input i alone, and the rows are the
\* same for every batch size
C10_RowsPerInput ==
    Succeeded("predict_proba") =>
        /\ Len(result.proba) = Len(result.X.items)
        /\ \A i \in DOMAIN result.proba :
              /\ Len(result.proba[i]) = result.before.n_classes_
              /\ result.proba[i] =
                    predict_proba(WithBatchSize(result.before, 1), ListV(<<result.X.items[i]>>)).proba[1]
        /\ \A b \in 1..MaxBatch :
              predict_proba(WithBatchSize(result.before, b), result.X).proba = result.proba

\* predict_proba has answered for a number of inputs that the batch size
\* does not divide
C10_Witness ==
    /\ Succeeded("predict_proba")
    /\ Len(result.X.items) % result.before.params.batch_size.v # 0
    /\ Len(result.X.items) > result.before.params.batch_size.v
    /\ Len(result.proba) = Len(result.X.items)

\* C11: when a fit call that started with an empty temporary directory
\* returns or raises, every file its epoch loop wrote has been deleted
C11_CheckpointsDeleted ==
    Returned("fit") => DOMAIN disk = {}

\* the files saved under the base name of the fit call are gone after fit
BaseNameFilesDeleted ==
    Returned("fit") => find_all_model_files(disk, "fit") = {}

\* the labels of the score call as integers
ScoreLabels == [i \in DOMAIN result.y.items |-> PyInt(result.y.items[i])]

\* the non-negative labels of the score call that the instance does not know
UnknownScoreClasses ==
    {ScoreLabels[i] : i \in DOMAIN ScoreLabels} \ ((-1) .. (result.before.n_classes_ - 1))

\* the sum of 2tp / (2tp + fp + fn) over a set of labels, as a fraction that is
\* not reduced
RECURSIVE F1SumOver(_, _, _)
F1SumOver(labels, y_true, y_pred) ==
    IF labels = {} THEN <<0, 1>>
    ELSE LET l == CHOOSE x \in labels : TRUE
             tp == Cardinality({i \in DOMAIN y_true : y_true[i] = l /\ y_pred[i] = l})
             miss == Cardinality({i \in DOMAIN y_true : (y_true[i] = l) # (y_pred[i] = l)})
             rest == F1SumOver(labels \ {l}, y_true, y_pred)
         IN <<2 * tp * rest[2] + rest[1] * (2 * tp + miss), (2 * tp + miss) * rest[2]>>

\* the fraction f is the mean of the F1 of every label of y_true and y_pred
IsMacroF1(f, y_true, y_pred) ==
    LET labels == {y_true[i] : i \in DOMAIN y_true} \cup {y_pred[i] : i \in DOMAIN y_pred}
        total == F1SumOver(labels, y_true, y_pred)
    IN f[1] * total[2] * Cardinality(labels) = total[1] * f[2]

\* C12: on a fitted instance with valid hyperparameters and well-formed X
\* and y, score raises the ValueError that names the unknown class, or the
\* ascending list of them, when y holds a non-negative class outside
\* 0..n_classes_-1, and otherwise returns the macro-averaged F1 of predict(X)
\* against y
C12_ScoreIsMacroF1 ==
    (/\ Returned("score")
     /\ is_fitted(result.before).exc = "none"
     /\ check_params(result.before.params).exc = "none"
     /\ WellFormedCall)
        => IF UnknownScoreClasses # {}
           THEN /\ result.err.exc = "ValueError"
                /\ result.err.msg = "y"
                /\ result.err.why = IF Cardinality(UnknownScoreClasses) = 1
                                    THEN "class is unknown" ELSE "classes are unknown"
                /\ result.err.actual = SortedList(UnknownScoreClasses)
           ELSE /\ result.err.exc = "none"
                /\ result.classes = predict(result.before, result.X).classes
                /\ IsMacroF1(result.f1, ScoreLabels, result.classes)

\* score has returned a macro F1 that is neither 0 nor 1
C12_Witness ==
    /\ Succeeded("score")
    /\ result.f1[1] > 0
    /\ result.f1[1] < result.f1[2]

\* a positive integer of one of the integer types the checks accept
PositiveInteger(x) == x.t \in {"int", "bool", "np.int32", "np.uint32"} /\ x.v >= 1

\* a float of one of the float types the checks accept
IsFloatValue(x) == x.t \in {"float", "np.float32", "np.float64"}

\* the keyword arguments that C13 calls missing, ill-typed or out of range
BadHyperparameters(kw) ==
    \/ \E name \in HyperNames : kw[name].t = "missing"
    \/ \E name \in {"batch_size", "max_epochs", "patience", "num_monte_carlo"} :
            ~PositiveInteger(kw[name])
    \/ ~(IsFloatValue(kw.gpu_memory_frac)
            /\ kw.gpu_memory_frac.v > 0 /\ kw.gpu_memory_frac.v <= FloatUnit)
    \/ ~(IsFloatValue(kw.validation_fraction)
            /\ kw.validation_fraction.v >= 0 /\ kw.validation_fraction.v < FloatUnit)
    \/ ~(\/ kw.bert_hub_module_handle.t = "NoneType"
         \/ kw.bert_hub_module_handle.t = "str" /\ kw.bert_hub_module_handle.v >= 1)
    \/ ~(kw.random_seed.t \in {"NoneType", "int", "bool", "np.int32", "np.uint32"})
    \/ ~(kw.verbose.t \in {"int", "bool", "np.int32", "np.uint32"})
    \/ ~(/\ kw.hidden_layer_sizes.t \in {"list", "tuple", "ndarray"}
         /\ kw.hidden_layer_sizes.ndim = 1
         /\ kw.hidden_layer_sizes.items # << >>
         /\ \A i \in DOMAIN kw.hidden_layer_sizes.items :
                LET item == kw.hidden_layer_sizes.items[i]
                IN item.t \in {"int", "bool", "np.int32", "np.uint32"} /\ item.v >= 1)

\* C13: check_params raises ValueError exactly when one of the ten
\* hyperparameters is missing, ill-typed or out of range, whatever the
\* values of the other parameters, and returns normally otherwise
C13_CheckParamsIffBad ==
    Returned("check_params")
        => ((result.err.exc = "ValueError") <=> BadHyperparameters(result.before.params))

\* the same, for calls where neither num_monte_carlo nor max_epochs is a
\* numpy int32
CheckParamsIffBadWithoutInt32 ==
    (/\ Returned("check_params")
     /\ result.before.params.num_monte_carlo.t # "np.int32"
     /\ result.before.params.max_epochs.t # "np.int32")
        => ((result.err.exc = "ValueError") <=> BadHyperparameters(result.before.params))

\* a container that is list-like and, when it is an array, 1-D
ListLike1D(c) == c.t \in {"list", "tuple", "ndarray"} /\ c.ndim = 1

\* a label that is neither None nor non-integral
IntegralLabel(lab) ==
    \/ lab.t \in {"int", "bool"}
    \/ lab.t = "float" /\ lab.v % FloatUnit = 0

\* the integer a label stands for
LabelValue(lab) == IF lab.t = "float" THEN lab.v \div FloatUnit ELSE lab.v

\* the distinct non-negative labels of a vector of integral labels
NonNegativeLabels(items) ==
    {n \in {LabelValue(items[i]) : i \in DOMAIN items} : n >= 0}

\* the arguments for which C14 says that check_Xy raises ValueError
MalformedXy(X, y) ==
    \/ ~ListLike1D(X)
    \/ ~ListLike1D(y)
    \/ Len(X.items) # Len(y.items)
    \/ \E i \in DOMAIN y.items : ~IntegralLabel(y.items[i])
    \/ Cardinality(NonNegativeLabels(y.items)) < 2

\* C14: check_Xy raises ValueError when X or y is not list-like or not 1-D,
\* when their lengths differ, when a label is None or not integral, or when
\* y has fewer than two distinct non-negative labels; when it returns, it
\* returns the ascending list of the distinct non-negative labels of y,
\* the negative ones left out
C14_CheckXyContract ==
    Returned("check_Xy")
        => /\ MalformedXy(result.X, result.y) => result.err.exc = "ValueError"
           /\ (~MalformedXy(result.X, result.y) /\ check_X(result.X, "X").exc = "none")
                  => result.err.exc = "none"
           /\ result.err.exc = "none"
                  => /\ {result.classes[i] : i \in DOMAIN result.classes}
                            = NonNegativeLabels(result.y.items)
                     /\ \A i \in DOMAIN result.classes :
                            \A j \in DOMAIN result.classes :
                                i < j => result.classes[i] < result.classes[j]

\* check_Xy has returned the classes of a y that also holds a negative label
C14_Witness ==
    /\ Succeeded("check_Xy")
    /\ \E i \in DOMAIN result.y.items : result.y.items[i] = IntV(-1)
    /\ Len(result.classes) >= 2

\* C15: fit leaves every constructor hyperparameter of the instance
\* unchanged: an instance constructed with random_seed=None still has
\* random_seed None after a successful fit
C15_FitKeepsHyperparameters ==
    Succeeded("fit") => cls.params = result.before.params

\* fit changes no hyperparameter other than random_seed
FitKeepsOtherHyperparameters ==
    Returned("fit")
        => \A name \in HyperNames \ {"random_seed"} : cls.params[name] = result.before.params[name]

\* fit leaves a random_seed that is not None as it is
FitKeepsGivenSeed ==
    (Returned("fit") /\ result.before.params.random_seed # NoneV)
        => cls.params.random_seed = result.before.params.random_seed

\* the confidence the fitted instance gives to its top class for a text
TopConfidence(text) ==
    SeqMax(MeanProbs(cls.sess_.w, text.v, cls.n_classes_, cls.params.num_monte_carlo.v))

\* threshold is the least top-class confidence over the texts of X
IsMinTopConfidence(threshold, X) ==
    /\ \E i \in DOMAIN X.items : threshold = TopConfidence(X.items[i])
    /\ \A i \in DOMAIN X.items : threshold <= TopConfidence(X.items[i])

\* no sample of the training or of the validation data of the fit call is
\* unlabeled
NoUnlabeled ==
    /\ \A i \in DOMAIN result.y.items : PyInt(result.y.items[i]) >= 0
    /\ result.val.present => \A i \in DOMAIN result.val.y.items : PyInt(result.val.y.items[i]) >= 0

\* C16: after a fit without unlabeled samples certainty_threshold_ is
\* exactly the minimum of the top-class confidences over the labeled
\* evaluation set: the validation set if there is one, else the training set
C16_ThresholdIsMinConfidence ==
    (Succeeded("fit") /\ NoUnlabeled)
        => IF result.val.present
           THEN IsMinTopConfidence(cls.certainty_threshold_, result.val.X)
           ELSE IF result.before.params.validation_fraction.v = 0
           THEN IsMinTopConfidence(cls.certainty_threshold_, result.X)
           ELSE \E i \in DOMAIN result.X.items :
                    cls.certainty_threshold_ = TopConfidence(result.X.items[i])

\* a fit without unlabeled samples has succeeded after training on texts
\* that the fitted instance is not equally confident about
C16_Witness ==
    /\ Succeeded("fit")
    /\ NoUnlabeled
    /\ result.steps > 0
    /\ \E i \in DOMAIN result.X.items : cls.certainty_threshold_ < TopConfidence(result.X.items[i])

\* a fit call with valid hyperparameters that evaluates on a validation set
\* never returns normally
NoSuccessWithValidation ==
    (Succeeded("fit") /\ check_params(result.before.params).exc = "none")
        => ~result.val.present /\ result.before.params.validation_fraction.v = 0

\* a fit without unlabeled samples has succeeded with a validation set
ThresholdFromValidation ==
    Succeeded("fit") /\ NoUnlabeled /\ result.val.present

\* the confidences the threshold search of a fit call works on, and its
\* target: 1 for a labeled row and 0 for an unlabeled one
SweepInputs ==
    LET M == cls.params.num_monte_carlo.v
        labeled == IF fit_.has_val
                   THEN Confidences(cls.sess_.w, cls.n_classes_, M, fit_.X_val, fit_.bounds_val)
                   ELSE Confidences(cls.sess_.w, cls.n_classes_, M, fit_.X_train, fit_.bounds_train)
        unlabeled == Confidences(cls.sess_.w, cls.n_classes_, M, fit_.X_unlabeled,
                               BoundsCeil(fit_.X_unlabeled[1].shape[1], cls.params.batch_size.v))
    IN [probabilities |-> labeled \o unlabeled,
        y_true |-> [i \in 1..(Len(labeled) + Len(unlabeled)) |-> IF i <= Len(labeled) THEN 1 ELSE 0]]

\* the grid of the search, in units of 1e-3
Grid == 1..(FloatUnit - 1)

\* threshold is the lowest value of the grid that attains the maximum F1
IsFirstBest(threshold, inputs) ==
    LET f1(t) == F1Binary(inputs.y_true, AtLeast(inputs.probabilities, t))
    IN /\ threshold \in Grid
       /\ \A best \in {f1(threshold)} :
            /\ \A t \in Grid : ~FracLess(best, f1(t))
            /\ \A t \in Grid : t < threshold => FracLess(f1(t), best)

\* the step that ends a fit call with unlabeled samples whose epoch loop and
\* confidence batches raised nothing
SearchesThreshold ==
    /\ pc = "fit_finally"
    /\ pc' = "returned"
    /\ fit_.exc.exc = "none"
    /\ fit_.X_unlabeled # NoneData
    /\ result'.err.exc # "AssertionError"

\* C17: when unlabeled samples exist, fit stores in certainty_threshold_ the
\* lowest value of the ascending grid 0.001..0.999 that attains the maximum
\* F1 of (confidence >= threshold) against the labeled-vs-unlabeled target
C17_ThresholdIsFirstBest ==
    [][SearchesThreshold
        => /\ result'.err.exc = "none"
           /\ \A inputs \in {SweepInputs} : IsFirstBest(cls'.certainty_threshold_, inputs)]_vars

\* whenever the threshold search of a fit call runs to its end, the value
\* stored is the lowest one of the grid that attains the maximum F1
SearchKeepsFirstBest ==
    [][(SearchesThreshold /\ result'.err.exc = "none")
        => \A inputs \in {SweepInputs} : IsFirstBest(cls'.certainty_threshold_, inputs)]_vars

\* a fit call with unlabeled samples has returned normally with a threshold
\* above the lowest value of the grid
ThresholdSearched ==
    /\ Succeeded("fit")
    /\ \E i \in DOMAIN result.y.items : PyInt(result.y.items[i]) < 0
    /\ cls.certainty_threshold_ > 1

\* the fit call was made on a fitted instance
Refit == result.op = "fit" /\ is_fitted(result.before).exc = "none"

\* C18: a second fit on a fitted instance discards all model state of the
\* first fit (session, tensors, tokenizer_, n_classes_,
\* certainty_threshold_) before it builds new state, so the instance never
\* holds the model of the second fit together with the threshold of the
\* first: once the second fit has built its model, the instance passes
\* is_fitted only if that fit has stored its own threshold
C18_RefitDiscardsFirstFit ==
    (/\ pc = "returned"
     /\ Refit
     /\ result.stage = "model"
     /\ result.err.exc # "none")
        => "certainty_threshold_" \notin cls.attrs

\* a second fit that fails after its teardown never leaves the session or
\* the tensors of the first fit on the instance
RefitDiscardsSession ==
    (/\ pc = "returned"
     /\ Refit
     /\ result.stage \in {"teardown", "tokenizer"})
        => cls.attrs \cap (TensorAttrs \cup {"sess_"}) = {}

\* a second fit that fails while it checks X and y leaves the instance as it
\* was
RefitRejectedKeepsState ==
    (pc = "returned" /\ Refit /\ result.stage = "arguments") => cls = result.before

\* the names load_all writes for the blob, in the temporary directory
BlobFileNames == {<<"dump", sfx>> : sfx \in blob.model_files}

\* a step that is a call of load_all with a blob of a fitted instance
LoadsFitted ==
    /\ pc = "idle"
    /\ result'.op = "load"
    /\ blob.model_files # {}
    /\ check_params(blob.params).exc = "none"

\* C19: load_all of the blob of a fitted instance raises, and writes,
\* overwrites and deletes no file, when one of the temporary paths it would
\* write exists as a file; when none exists, no file it wrote is left
\* when it returns or raises, and no other file is touched
C19_LoadLeavesNoFile ==
    [][LoadsFitted
        => IF BlobFileNames \cap DOMAIN disk # {}
           THEN result'.err.exc = "ValueError" /\ disk' = disk
           ELSE /\ BlobFileNames \cap DOMAIN disk' = {}
                /\ \A f \in DOMAIN disk : f \in DOMAIN disk' /\ disk'[f] = disk[f]
                /\ DOMAIN disk' \subseteq DOMAIN disk]_vars

\* load_all has refused a blob because of a file that is still there, with
\* its content
C19_Witness ==
    /\ Returned("load")
    /\ result.err.why = "file exists"
    /\ \E f \in BlobFileNames : f \in DOMAIN disk /\ disk[f] = NWeights

\* load_all has restored a fitted instance and left no file of the blob
LoadedWithoutFiles ==
    /\ Succeeded("load")
    /\ has_another
    /\ BlobFileNames # {}
    /\ BlobFileNames \cap DOMAIN disk = {}

\* the step is an iteration of the epoch loop of a fit that evaluates on
\* the training set
EpochStep == pc = "fit_loop" /\ ~fit_.has_val

\* the checkpoint of the fit call holds the weights the step leaves
Checkpointed ==
    /\ CkptFiles("fit") \subseteq DOMAIN disk'
    /\ \A f \in CkptFiles("fit") : disk'[f] = cls'.sess_.w

\* the step keeps the checkpoint files of the fit call as they are
CheckpointKept ==
    \A f \in CkptFiles("fit") :
        IF f \in DOMAIN disk THEN f \in DOMAIN disk' /\ disk'[f] = disk[f] ELSE f \notin DOMAIN disk'

\* the selection rule of C20 for an epoch that reaches the score acc
SelectionRule(acc) ==
    IF fit_.best_acc = -1 \/ acc > fit_.best_acc
    THEN /\ fit_'.best_acc = acc
         /\ fit_'.n_epochs_without_improving = 0
         /\ Checkpointed
    ELSE /\ fit_'.best_acc = fit_.best_acc
         /\ fit_'.n_epochs_without_improving = fit_.n_epochs_without_improving + 1
         /\ CheckpointKept

\* C20: every epoch of the loop applies the selection rule: the score of
\* the first epoch becomes best_acc, is checkpointed and sets the counter to
\* 0; a later epoch with a strictly greater score replaces best_acc,
\* overwrites the checkpoint and resets the counter; a later epoch with an
\* equal or lower score leaves best_acc and the checkpoint unchanged and
\* adds 1 to the counter
C20_ModelSelection ==
    [][(EpochStep /\ ~Truthy(cls.params.verbose) /\ fit_.epoch >= 1)
        => \E acc \in Scores : SelectionRule(acc)]_vars

\* the first epoch of a fit that evaluates on the training set applies the
\* selection rule, whenever its batches are well-formed
FirstEpochSelects ==
    [][(EpochStep /\ fit_.epoch = 0 /\ fit_'.exc.exc # "AssertionError")
        => \E acc \in Scores : SelectionRule(acc)]_vars

\* no epoch after the first gets as far as the selection: it raises when it
\* runs the training operation (line 170)
LaterEpochsRaise ==
    [][(pc = "fit_loop" /\ fit_.epoch >= 1 /\ fit_'.exc.exc # "AssertionError")
        => fit_'.exc.msg = "train_op" /\ fit_'.best_acc = fit_.best_acc]_vars

\* an epoch after the first has started
SecondEpochStarted == pc = "fit_loop" /\ fit_.epoch >= 1

\* a step of the epoch loop of a fit without validation data and without
\* logging, on well-formed batches, that leaves the loop
LeavesLoop ==
    /\ EpochStep
    /\ pc' = "fit_finally"
    /\ ~Truthy(cls.params.verbose)
    /\ fit_'.exc.exc # "AssertionError"

\* C21: the epoch loop stops at exactly the first epoch after which the
\* no-improvement counter equals patience: it is never left before that
\* point unless max_epochs is exhausted, and the counter never exceeds
\* patience
C21_StopsWhenCounterReachesPatience ==
    [][LeavesLoop
        => /\ fit_'.n_epochs_without_improving <= cls.params.patience.v
           /\ \/ fit_'.n_epochs_without_improving = cls.params.patience.v
              \/ fit_'.epoch = cls.params.max_epochs.v]_vars

\* the no-improvement counter never exceeds patience
CounterWithinPatience ==
    pc \in {"fit_loop", "fit_finally"}
        => fit_.n_epochs_without_improving <= cls.params.patience.v

\* once the counter has reached patience the loop has been left: no further
\* epoch is run
NoEpochAfterPatience ==
    (pc = "fit_loop" /\ fit_.epoch >= 1)
        => fit_.n_epochs_without_improving < cls.params.patience.v

\* with a patience of at least 1 the loop is never left by an early stop
NoEarlyStop ==
    [][(pc = "fit_loop" /\ pc' = "fit_finally" /\ cls.params.patience.v >= 1 /\ fit_'.exc.exc = "none")
        => fit_'.epoch = cls.params.max_epochs.v]_vars

\* The trainable state a later epoch starts from is the state of the checkpoint file.
StartsFromCheckpoint ==
    /\ fit_.saved
    /\ <<"fit", "data">> \in DOMAIN disk
    /\ cls.sess_.w = disk[<<"fit", "data">>]

\* C22: every epoch k >= 2 that fit begins starts with the trainable state stored in the
\* checkpoint of the best epoch among 1..k-1, which the loop restores into a rebuilt model
\* after each epoch.
C22_EpochStartsFromBestCheckpoint == (pc = "fit_loop" /\ fit_.epoch >= 1) => StartsFromCheckpoint

\* A second epoch is about to run on restored weights after at least one optimizer step.
C22_Witness == pc = "fit_loop" /\ fit_.epoch >= 1 /\ fit_.steps > 0 /\ StartsFromCheckpoint

\* The restore follows the selection of the same epoch: the state a kept loop goes on with
\* is the checkpoint's, in a session of a new graph.
RestoreAfterEachEpoch ==
    [][(EpochStep /\ pc' = "fit_loop")
        => /\ cls'.sess_.w = disk'[<<"fit", "data">>]
           /\ cls'.sess_.graph # cls.sess_.graph]_vars

\* The loop has been left without an exception after at least one epoch.
LoopCompleted == pc = "fit_finally" /\ fit_.exc.exc = "none" /\ fit_.saved

\* The live session belongs to a model rebuilt after the epochs and holds the checkpoint's state.
RestoredModel == cls.sess_.graph # fit_.ops_graph /\ StartsFromCheckpoint

\* C23: on both exits of the epoch loop, the early stop and the exhaustion of max_epochs, the
\* model that calibration uses and the instance keeps is the restored best-checkpoint model,
\* never the session left by the last executed epoch.
C23_KeptModelIsRestored == LoopCompleted => RestoredModel

\* On the exhaustion of max_epochs the kept model is the restored one.
ExhaustionKeepsRestored == (LoopCompleted /\ fit_.epoch = cls.params.max_epochs.v) => RestoredModel

\* The early stop keeps the session that ran the last epoch.
EarlyStopKeepsLastSession ==
    (LoopCompleted /\ fit_.epoch < cls.params.max_epochs.v) => cls.sess_.graph = fit_.ops_graph

\* An early stop has been reached.
EarlyStopped == LoopCompleted /\ fit_.epoch < cls.params.max_epochs.v

\* The epoch about to run is one of range(max_epochs).
EpochInRange == pc = "fit_loop" => fit_.epoch < cls.params.max_epochs.v

\* C24: the epoch loop of fit runs at most max_epochs epochs and every fit that enters it
\* ends (by completion, early stop or exception), whatever scores the epochs give.
C24_EpochLoopTerminates == []EpochInRange /\ ((pc = "fit_loop") ~> (pc = "returned"))

\* A fit with max_epochs >= 1 and patience >= 1 has returned after running all its epochs.
C24_Witness ==
    /\ Succeeded("fit")
    /\ result.steps > 0
    /\ cls.params.max_epochs.v >= 1
    /\ cls.params.patience.v >= 1

\* No call of fill_feed_dict fails its assertion on the number of rows of the batch.
AssertionNeverFails == fit_.exc.exc # "AssertionError" /\ result.err.exc # "AssertionError"

\* the rows, labels and batch size extend_Xy was called with
ExtendN == fit_.X_train[1].shape[1]
ExtendB == cls.params.batch_size.v
WithLabels == fit_.y_train # NoneArr
NeedsPadding == ExtendN % ExtendB # 0

\* rows is the n rows of given followed by copies of the last of them up to a multiple of B
PaddedWithLast(rows, given, n, B) ==
    /\ Len(rows) % B = 0
    /\ Len(rows) = n + (B - (n % B))
    /\ \A i \in 1..n : rows[i] = given[i]
    /\ \A i \in (n + 1)..Len(rows) : rows[i] = given[n]

\* what the claim says extend_Xy returns
ExtendContract ==
    IF ~NeedsPadding
    THEN result.err.exc = "none" /\ result.X = fit_.X_train /\ result.y = fit_.y_train
    ELSE /\ result.err.exc = "none"
         /\ \A c \in 1..3 : PaddedWithLast(result.X[c].data, fit_.X_train[c].data, ExtendN, ExtendB)
         /\ WithLabels =>
              /\ result.y.shape = <<Len(result.y.data)>>
              /\ PaddedWithLast(result.y.data, fit_.y_train.data, ExtendN, ExtendB)

\* C25: extend_Xy returns its input unchanged when N mod B = 0 and otherwise appends
\* B - (N mod B) copies of the last row to each of the three channels and, when labels are
\* given, copies of the last label to the 1-D label vector, so that the length is a multiple
\* of B, the first N rows are unchanged and every row keeps its own label, also with shuffle.
C25_ExtendPadsWithLastRow ==
    (Returned("extend_Xy") /\ (WithLabels \/ result.stage # "shuffle")) => ExtendContract

\* The contract holds when the rows need no padding and when no labels are given.
ExtendWithoutLabels ==
    (Returned("extend_Xy") /\ result.stage # "shuffle" /\ ~(WithLabels /\ NeedsPadding)) => ExtendContract

\* With labels the rows are never reordered, whatever the shuffle flag.
ExtendKeepsPairs ==
    (Returned("extend_Xy") /\ WithLabels /\ ~NeedsPadding)
        => result.X = fit_.X_train /\ result.y = fit_.y_train

\* Labels that need padding make extend_Xy raise.
ExtendLabelsRaise ==
    (Returned("extend_Xy") /\ WithLabels /\ NeedsPadding) => result.err.exc = "ValueError"

\* extend_Xy has been called with labels on rows that need padding.
LabelsNeedPadding == Returned("extend_Xy") /\ WithLabels /\ NeedsPadding

\* bounds is the sequence of the ranges [0, B), [B, 2B), ... that covers n_rows rows
UniformBounds(bounds, n_rows, B) ==
    /\ n_rows % B = 0
    /\ Len(bounds) * B = n_rows
    /\ \A i \in DOMAIN bounds : bounds[i] = <<(i - 1) * B, i * B>>

\* the batch bounds of the data sets of the running fit
FitBoundsUniform ==
    LET B == cls.params.batch_size.v IN
    (pc \in {"fit_loop", "fit_finally"} /\ fit_.X_train # NoneData /\ B >= 1) =>
        /\ UniformBounds(fit_.bounds_train, fit_.X_train[1].shape[1], B)
        /\ fit_.has_val => UniformBounds(fit_.bounds_val, fit_.X_val[1].shape[1], B)
        /\ fit_.X_unlabeled # NoneData =>
              UniformBounds(BoundsCeil(fit_.X_unlabeled[1].shape[1], B), fit_.X_unlabeled[1].shape[1], B)

\* the batch bounds of a prediction on N rows are ceil(N / B) ranges over the padded rows
PredictBoundsUniform ==
    LET B == result.before.params.batch_size.v
        N == Len(result.X.items)
    IN
    (Succeeded("predict_proba") /\ N >= 1) =>
        \A ext \in {extend_Xy(B, tokenize_X(result.X), NoneArr, FALSE, << >>)} :
            /\ UniformBounds(BoundsFloor(ext.X[1].shape[1], B), ext.X[1].shape[1], B)
            /\ Len(BoundsFloor(ext.X[1].shape[1], B)) = CeilDiv(N, B)
            /\ Len(result.proba) = N

\* C26: the batch bounds that fit and predict_proba compute for a data set of N >= 1 rows with
\* batch size B >= 1 are ceil(N / B) contiguous non-overlapping ranges of exactly B rows that
\* cover the padded data set, and the assertion of fill_feed_dict on the batch length never fails.
C26_BatchesAreUniform == FitBoundsUniform /\ PredictBoundsUniform /\ AssertionNeverFails

\* A prediction has been made on a number of rows that is not a multiple of the batch size.
C26_Witness ==
    /\ Succeeded("predict_proba")
    /\ Len(result.X.items) % result.before.params.batch_size.v # 0

\* the rows of one channel of the tokenized texts at the 1-based positions given
RowsAt(channel, positions) == [i \in DOMAIN positions |-> channel.data[positions[i]]]

\* The returned triple is the split of the samples by the 1-based positions in S (labeled)
\* and outside S (unlabeled), each in increasing order.
IsSplitBy(S) ==
    LET n == Len(result.X.items)
        tokens == tokenize_X(result.X)
        L == SortedList(S)
        U == SortedList((1..n) \ S)
    IN
    /\ \A i \in S : result.y.items[i].v >= 0
    /\ \A i \in (1..n) \ S : result.y.items[i].v < 0
    /\ \A c \in 1..3 : fit_.X_train[c].data = RowsAt(tokens[c], L)
    /\ fit_.y_train.data = [i \in DOMAIN L |-> result.y.items[L[i]].v]
    /\ fit_.y_train.shape = <<Len(L)>>
    /\ IF U = << >> THEN fit_.X_unlabeled = NoneData
       ELSE \A c \in 1..3 : fit_.X_unlabeled[c].data = RowsAt(tokens[c], U)
    /\ Len(L) + Len(U) = n

NoLabeledRow == \A i \in DOMAIN result.y.items : result.y.items[i].v < 0

\* C27: tokenize_all(X, y) splits the rows into the labeled ones (y >= 0) and the unlabeled
\* ones (y < 0), each in its original order, every row in exactly one part, the i-th returned
\* label being that of the i-th labeled row; it raises ValueError when no row is labeled.
C27_TokenizeAllSplits ==
    Returned("tokenize_all") =>
        IF NoLabeledRow THEN fit_.exc.exc = "ValueError"
        ELSE /\ fit_.exc.exc = "none"
             /\ \E S \in SUBSET (1..Len(result.X.items)) : IsSplitBy(S)

\* A call has returned at least two labeled rows and an unlabeled row that stood before one of them.
C27_Witness ==
    /\ Returned("tokenize_all")
    /\ fit_.X_unlabeled # NoneData
    /\ Len(fit_.y_train.data) >= 2
    /\ result.y.items[1].v < 0

\* The predictions of the validation rows, cut to the number of ground-truth labels as in
\* y_pred[0:len(y_val_)], are as many as the labels and the i-th of them is made for the row
\* whose label is the i-th ground-truth label.
PredictionsAligned ==
    /\ Len(fit_.y_val_) <= fit_.X_val[1].shape[1]
    /\ \A i \in DOMAIN fit_.y_val_ : fit_.y_val.data[i] = fit_.y_val_[i]

ValidationEpoch == pc = "fit_loop" /\ fit_.has_val

\* C28: in the validation branch of an epoch the predictions scored against the ground truth
\* are as many as the ground-truth labels and the i-th prediction belongs to the sample of the
\* i-th label, also for validation sets that hold unlabeled samples.
C28_PredictionsMatchLabels == ValidationEpoch => PredictionsAligned

\* Validation sets without unlabeled samples are aligned with their labels.
AlignedWithoutUnlabeled ==
    (ValidationEpoch /\ \A i \in DOMAIN fit_.y_val_ : fit_.y_val_[i] >= 0) => PredictionsAligned

\* No epoch with a validation set gets as far as the score: it ends with an exception.
ValidationNeverScored == [][ValidationEpoch => fit_'.exc.exc # "none"]_vars

\* An epoch is about to validate on a set that holds an unlabeled sample.
ValidatesWithUnlabeled == ValidationEpoch /\ \E i \in DOMAIN fit_.y_val_ : fit_.y_val_[i] < 0

\* a call of fit has raised after the checks of X and y
FitRaised == Returned("fit") /\ result.err.exc # "none" /\ result.stage # "arguments"

\* C29: an instance passes is_fitted only if its most recent fit completed: after a fit that
\* raises while it checks validation_data, tokenizes or runs the epoch loop, the instance is
\* not fitted, also when it was fitted before the call.
C29_FailedFitLeavesUnfitted == FitRaised => is_fitted(cls).exc # "none"

\* A fit that raises before it builds its model leaves the instance unfitted.
FailedBeforeModelUnfitted ==
    (FitRaised /\ result.stage \in {"teardown", "tokenizer"}) => is_fitted(cls).exc # "none"

\* A failed fit of an instance that held no certainty threshold leaves it unfitted.
FailedFirstFitUnfitted ==
    (FitRaised /\ "certainty_threshold_" \notin result.before.attrs) => is_fitted(cls).exc # "none"

\* A fit of a fitted instance that raises after building its model leaves the instance
\* passing is_fitted with the certainty threshold of the earlier fit.
FailedRefitServesOldThreshold ==
    (FitRaised /\ Refit /\ result.stage = "model")
        => /\ is_fitted(cls).exc = "none"
           /\ cls.certainty_threshold_ = result.before.certainty_threshold_

\* A fit of a fitted instance has raised in its epoch loop.
RefitRaisedInLoop == FitRaised /\ Refit /\ result.stage = "model"

\* The operations an epoch runs were created in the graph of the live session.
OpsOfLiveGraph == fit_.ops_graph = cls.sess_.graph

\* C30: in every epoch of fit, the epochs after a teardown, rebuild and restore included, the
\* train_op, accuracy and accuracy_update_op that are run belong to the graph of the live
\* session; no operation of a torn-down graph is run.
C30_OpsBelongToLiveGraph == pc = "fit_loop" => OpsOfLiveGraph

\* The first epoch runs the operations of the graph it was built with.
FirstEpochOpsLive == (pc = "fit_loop" /\ fit_.epoch = 0) => OpsOfLiveGraph

\* Every later epoch holds the operations of a graph that has been torn down.
LaterEpochOpsStale == (pc = "fit_loop" /\ fit_.epoch >= 1) => ~OpsOfLiveGraph

\* The run of a stale operation ends the epoch with ValueError before any optimizer step.
StaleOpsRaise ==
    [][(pc = "fit_loop" /\ ~OpsOfLiveGraph /\ BatchesOk(cls.params.batch_size.v, fit_.X_train, fit_.bounds_train))
        => /\ fit_'.exc.exc = "ValueError"
           /\ fit_'.steps = fit_.steps
           /\ cls' = cls]_vars

\* A second epoch is about to run the operations built before the teardown.
StaleEpochBegins == pc = "fit_loop" /\ fit_.epoch >= 1 /\ ~OpsOfLiveGraph

====
